---- MODULE Spec2Model ----
(***************************************************************************)
(* Model of the queue-backed weather daemon, src/weather-daemon.py         *)
(* (class WeatherDaemon).  Three threads share the daemon object: the      *)
(* main thread (run: start-up connects, acquisition loop, cleanup), the    *)
(* data sender thread (data_sender_worker) and the watchdog thread         *)
(* (watchdog_worker).  Every step below is one access to shared state;     *)
(* queue.Queue makes full(), empty(), qsize(), get_nowait() and            *)
(* put_nowait() individually atomic.  self.queue_lock is taken only by     *)
(* queue_data, which only the main thread calls, so it excludes nothing    *)
(* and has no state here.                                                  *)
(***************************************************************************)
EXTENDS Integers, Sequences, FiniteSets, TLC

\* Scaled-down sizes (source value in parentheses).
QueueCap == 3           \* queue.Queue(maxsize=1000)
BatchMax == 2           \* min(10, qsize) items per drain cycle
FinalDrainMax == 2      \* min(50, qsize) items in the final drain
MaxSerialRetries == 2   \* max_serial_retries (default 10)
MaxInfluxRetries == 2   \* max_influx_retries (default 20)
MaxReadings == 4        \* number of Readings the Source delivers in a run
MaxTokens == 4          \* number of tokens in a line handed to a parser


\* Values fixed by the source.
DefaultMaxSerialRetries == 10   \* config.get('max_serial_retries', 10)
DefaultMaxInfluxRetries == 20   \* config.get('max_influx_retries', 20)
SerialRetryDelay == 5           \* serial_retry_delay, seconds
InfluxRetryDelay == 30          \* influx_retry_delay
WatchdogTimeout == 300          \* watchdog_timeout
DataTimeout == 600              \* data_timeout
HealthCheckInterval == 60       \* health_check_interval
ReadInterval == 5               \* read_interval
QueueFlushInterval == 10        \* queue_flush_interval
ErrorPause == 60                \* time.sleep(60) after the error threshold
MaxConsecutiveErrors == 10      \* max_consecutive_errors = 10

\* consecutive_errors is not followed beyond this value
MaxErrorCount == 11

Threads == {"main", "sender", "watchdog"}
Connectors == {"main", "watchdog"}

VARIABLES
    running,            \* self.running
    restart_on_hang,    \* self.restart_on_hang (configuration)
    max_serial_retries, \* self.max_serial_retries (configuration)
    max_influx_retries, \* self.max_influx_retries (configuration)
    timed,              \* whether elapsed time is followed: if not, sleeps take
                        \* no time and a staleness test may come out either way
    serial_connection,  \* "none" | "open" | "closed"
    influx_client,      \* "none" | "client" (an object, truthy, also when unusable)
    serial_retry_count, \* self.serial_retry_count
    influx_retry_count, \* self.influx_retry_count
    data_queue,         \* self.data_queue: sequence of Readings, head first
    captured,           \* number of Readings parsed so far; Reading k is the k-th
    delivered,          \* history: Readings the Sink accepted
    pc,                 \* position of each thread
    retry_count,        \* local retry_count of the connect call a thread is in
    caller,             \* where the main thread's connect call returns to
    weather_data,       \* argument of the queue_data call in progress (0: none)
    batch_n,            \* drain cycle: range(min(10, qsize)) length
    batch_i,            \* drain cycle: iterations done
    sent_count,         \* drain cycle: sent_count
    failed_items,       \* drain cycle: failed_items
    remaining,          \* final drain: iterations left
    consecutive_errors, \* run: consecutive_errors
    line,               \* run: the line read last, as a sequence of characters
    hb_age,             \* seconds since self.last_heartbeat was set
    data_age,           \* seconds since self.last_data_time was set
    timer,              \* seconds each thread still has to sleep
    wd_elapsed,         \* seconds since the watchdog took "now" in this cycle
    influx_closed,      \* self.influx_client.close() was called by cleanup
    tokens,             \* the tokens the line handed to parse_weather_data is
                        \* made of, joined by single spaces
    data_line,          \* parse_weather_data: its argument
    parsed,             \* parse_weather_data: what each variant returned
    attempts,           \* history: connection attempts made in the current call
    sleeps,             \* history: retry delays waited in the current call
    snapValid,          \* history: since the snapshot every send succeeded and
                        \*          nothing but the drain worker touched the queue
    snapQueue,          \* history: queue contents at the snapshot
    snapSent,           \* history: Readings the drain worker sent since the snapshot
    snapCycles,         \* history: batch cycles started since the snapshot
    consumed            \* history: the drain worker or the final drain has
                        \*          taken an item out of the queue

connVars == <<serial_connection, influx_client, serial_retry_count, influx_retry_count>>
episodeVars == <<retry_count, attempts, sleeps>>
batchVars == <<batch_n, batch_i, sent_count, failed_items>>
snapVars == <<snapValid, snapQueue, snapSent, snapCycles, consumed>>
cfgVars == <<restart_on_hang, max_serial_retries, max_influx_retries, timed>>
timeVars == <<hb_age, data_age, timer, wd_elapsed>>
parseVars == <<tokens, data_line, parsed>>
vars == <<running, cfgVars, connVars, data_queue, captured, delivered, pc,
          episodeVars, caller, weather_data, batchVars, remaining, snapVars,
          consecutive_errors, line, timeVars, influx_closed, parseVars>>

Min(a, b) == IF a < b THEN a ELSE b
Range(s) == {s[i] : i \in 1..Len(s)}
CeilDiv(a, b) == (a + b - 1) \div b

Goto(t, loc) == pc' = [pc EXCEPT ![t] = loc]

\* time.sleep(d) starts; the thread takes its next step when it has run out
Sleep(t, d) == timer' = [timer EXCEPT ![t] = IF timed THEN d ELSE 0]
Awake(t) == timer[t] = 0

(***************************************************************************)
(* queue.Queue(maxsize=QueueCap)                                           *)
(***************************************************************************)
\* Faulty variant: the head item is read and left in the queue
PeekOnly(q) == q
\* data_queue.get_nowait(): the head item leaves the queue
get_nowait(q) == Tail(q)

\* Faulty variant: the queue is created without maxsize
QueueUnbounded(q) == FALSE
\* queue.Queue(maxsize=1000): full() and the test inside put_nowait()
QueueFull(q) == Len(q) >= QueueCap

\* Faulty variant: the newest item is evicted
EvictNewest(q) == IF q = <<>> THEN q ELSE SubSeq(q, 1, Len(q) - 1)
\* queue_data: get_nowait() under full(); queue.Empty is passed over
EvictOldest(q) == IF q = <<>> THEN q ELSE Tail(q)

\* queue_data: put_nowait(); queue.Full is caught by the outer handler,
\* logged ("Failed to queue data") and the item is gone
PutOrLose(q, item) == IF QueueFull(q) THEN q ELSE Append(q, item)

\* Faulty variant: the failed item is rebuilt at its re-enqueue and is no
\* longer the pair that was taken from the queue
RequeueRestamped(q, item) == IF QueueFull(q) THEN q ELSE Append(q, item + 1)

\* Faulty variant: the re-enqueue evicts the oldest item of a full queue
RequeueDropOldest(q, item) == IF QueueFull(q) THEN Append(Tail(q), item) ELSE Append(q, item)
\* data_sender_worker: put_nowait(item); on queue.Full the failed item is dropped
Requeue(q, item) == IF QueueFull(q) THEN q ELSE Append(q, item)

\* Faulty variant: a drain cycle takes the whole queue
BatchWholeQueue(qsize) == qsize
\* Faulty variant: one item per drain cycle
BatchOfOne(qsize) == Min(1, qsize)
\* data_sender_worker: range(min(10, self.data_queue.qsize()))
BatchSize(qsize) == Min(BatchMax, qsize)

\* Faulty variant: the final drain takes the whole queue
FinalDrainAll(qsize) == qsize
\* cleanup: remaining = min(50, self.data_queue.qsize())
FinalDrainSize(qsize) == Min(FinalDrainMax, qsize)

\* One call of send_to_influxdb: write_api.write() returns, or it raises, or
\* self.write_api is None and the attribute access raises
WriteOutcomes == {"written", "write_exc", "no_write_api"}
\* The Sink holds the point once write() has returned
Accepted(write) == write = "written"
\* Faulty variant: send_to_influxdb reports success whatever happened
SendReportsSuccess(write) == TRUE
\* send_to_influxdb: "return True" after the write, "return False" from
\* "except Exception"
send_to_influxdb(write) == write = "written"

\* Faulty variant: the item is kept for re-enqueue whatever the send returned
FailedAlways(failed, item, ok) == Append(failed, item)
\* data_sender_worker: a failed send appends the item to failed_items
FailedAfterSend(failed, item, ok) == IF ok THEN failed ELSE Append(failed, item)

\* Faulty variant: the Reading is queued whatever the send returned
QueueAlways(sent) == TRUE
\* run: "if self.influx_client and self.send_to_influxdb(...)" ... "else: queue_data"
ShouldQueue(sent) == ~sent

(***************************************************************************)
(* connect_serial / connect_influxdb                                       *)
(***************************************************************************)
\* Faulty variant: the retry loop does not look at self.running
RetryLoopIgnoresRunning(rc, max, run) == rc < max
\* Faulty variant: one attempt too many
RetryLoopCondOffByOne(rc, max, run) == rc <= max /\ run
\* while retry_count < self.max_..._retries and self.running
RetryLoopCond(rc, max, run) == rc < max /\ run

\* Faulty variant: the count goes on from the published counter
EpisodeStartLeak(published) == published
\* retry_count = 0
EpisodeStart(published) == 0

\* if retry_count < self.max_..._retries: time.sleep(delay)
SleepAfterFailure(rc, max) == rc < max

\* One attempt of connect_serial: it succeeds, or serial.Serial() raises (an
\* open connection was closed first), or flush() raises on the new, open
\* connection; the exception is a SerialException or another one.
SerialOutcomes == {"ok", "serial_exc_open", "serial_exc_flush",
                   "other_exc_open", "other_exc_flush"}
\* One attempt of connect_influxdb: it succeeds, or InfluxDBClient() raises
\* (self.influx_client keeps its value), or write_api()/ping() raises after
\* self.influx_client was assigned.
InfluxOutcomes == {"ok", "exc_ctor", "exc_ping"}

SerialAfter(outcome, s) ==
    CASE outcome = "ok" -> "open"
      [] outcome \in {"serial_exc_flush", "other_exc_flush"} -> "open"
      [] OTHER -> IF s = "open" THEN "closed" ELSE s

InfluxAfter(outcome, c) == IF outcome = "exc_ctor" THEN c ELSE "client"

\* Entry of connect_serial / connect_influxdb
EnterEpisode(t, loc, published) ==
    /\ Goto(t, loc)
    /\ retry_count' = [retry_count EXCEPT ![t] = EpisodeStart(published)]
    /\ attempts' = [attempts EXCEPT ![t] = 0]
    /\ sleeps' = [sleeps EXCEPT ![t] = 0]

\* Return from connect_serial / connect_influxdb: its locals are gone
ForgetEpisode(t) ==
    /\ retry_count' = [retry_count EXCEPT ![t] = 0]
    /\ attempts' = [attempts EXCEPT ![t] = 0]
    /\ sleeps' = [sleeps EXCEPT ![t] = 0]

LeaveEpisode(t, loc) ==
    /\ Goto(t, loc)
    /\ ForgetEpisode(t)

\* Faulty variant: the process is ended whatever the configuration says
ExitAlways(restart) == TRUE
\* "if self.restart_on_hang:" in front of both os._exit(1) calls
ShouldExit(restart) == restart

\* run, end of an iteration: "Check for too many consecutive errors" with the
\* counter at ce, after the thread has slept for slept seconds already;
\* os._exit(1) ends every thread at once
EndIteration(ce, slept) ==
    IF ce >= MaxConsecutiveErrors
    THEN IF ShouldExit(restart_on_hang)
         THEN /\ pc' = [t \in Threads |-> "exited"]
              /\ consecutive_errors' = ce
              /\ UNCHANGED timer
         ELSE /\ Goto("main", "loop_top")
              /\ consecutive_errors' = 0
              /\ Sleep("main", slept + ErrorPause + ReadInterval)
    ELSE /\ Goto("main", "loop_top")
         /\ consecutive_errors' = ce
         /\ Sleep("main", slept + ReadInterval)

\* History: the snapshot no longer describes an undisturbed drain
Invalidate ==
    /\ snapValid' = FALSE
    /\ snapQueue' = <<>>
    /\ snapSent' = <<>>
    /\ snapCycles' = 0

(***************************************************************************)
(* parse_weather_data.  A line is a sequence of characters; a parsed       *)
(* result is a function from field names (sequences of characters) to      *)
(* values, and None is the function with no field.  A value is held in     *)
(* thousandths, so that "50.1" and "50.10" are one value and "50.1" and     *)
(* "50.2" are two.                                                         *)
(***************************************************************************)
NoReading == [k \in {} |-> 0]

Digits == <<"0", "1", "2", "3", "4", "5", "6", "7", "8", "9">>
Upper == <<"A", "B", "C", "D", "E", "F", "G", "H", "I", "J", "K", "L", "M",
           "N", "O", "P", "Q", "R", "S", "T", "U", "V", "W", "X", "Y", "Z">>
Lower == <<"a", "b", "c", "d", "e", "f", "g", "h", "i", "j", "k", "l", "m",
           "n", "o", "p", "q", "r", "s", "t", "u", "v", "w", "x", "y", "z">>

IsDigit(c) == \E i \in 1..Len(Digits) : Digits[i] = c
\* The whitespace of str.strip() and of the pattern's \s
IsSpace(c) == c \in {" ", "\t"}

\* str.strip()
RECURSIVE LStrip(_)
LStrip(str) == IF str # <<>> /\ IsSpace(Head(str)) THEN LStrip(Tail(str)) ELSE str
RECURSIVE RStrip(_)
RStrip(str) ==
    IF str # <<>> /\ IsSpace(str[Len(str)])
    THEN RStrip(SubSeq(str, 1, Len(str) - 1)) ELSE str
Strip(str) == RStrip(LStrip(str))

\* str.find(c) + 1: the place of the first c in str, 0 when there is none
Find(str, c) ==
    IF \E i \in 1..Len(str) : str[i] = c
    THEN CHOOSE i \in 1..Len(str) : str[i] = c /\ \A j \in 1..(i - 1) : str[j] # c
    ELSE 0

\* str.split(c): every c separates, empty pieces are kept
RECURSIVE Split(_, _)
Split(str, c) ==
    LET i == Find(str, c) IN
    IF i = 0 THEN <<str>>
    ELSE <<SubSeq(str, 1, i - 1)>> \o Split(SubSeq(str, i + 1, Len(str)), c)

\* str.lower()
LowerChar(c) ==
    IF \E i \in 1..Len(Upper) : Upper[i] = c
    THEN Lower[CHOOSE i \in 1..Len(Upper) : Upper[i] = c]
    ELSE c
ToLower(str) == [i \in 1..Len(str) |-> LowerChar(str[i])]

\* float(text) on a stripped text: whether it converts, and the value.  The
\* decimal notation is covered (sign, digits, one point, at least one digit);
\* exponents, underscores, "inf" and "nan" are not.
IsFloatText(text) ==
    LET body == IF text # <<>> /\ Head(text) \in {"+", "-"} THEN Tail(text) ELSE text IN
    /\ \A i \in 1..Len(body) : IsDigit(body[i]) \/ body[i] = "."
    /\ \E i \in 1..Len(body) : IsDigit(body[i])
    /\ Cardinality({i \in 1..Len(body) : body[i] = "."}) <= 1

DigitValue(c) == (CHOOSE i \in 1..Len(Digits) : Digits[i] = c) - 1
RECURSIVE IntOf(_)
IntOf(ds) ==
    IF ds = <<>> THEN 0
    ELSE 10 * IntOf(SubSeq(ds, 1, Len(ds) - 1)) + DigitValue(ds[Len(ds)])

\* The value of a text that converts, in thousandths (digits beyond the third
\* decimal place are cut)
FloatOf(text) ==
    LET negative == text # <<>> /\ Head(text) = "-"
        body == IF text # <<>> /\ Head(text) \in {"+", "-"} THEN Tail(text) ELSE text
        point == Find(body, ".")
        whole == IF point = 0 THEN body ELSE SubSeq(body, 1, point - 1)
        decimals == IF point = 0 THEN <<>> ELSE SubSeq(body, point + 1, Len(body))
        three == SubSeq(decimals \o <<"0", "0", "0">>, 1, 3)
        magnitude == 1000 * IntOf(whole) + IntOf(three)
    IN IF negative THEN 0 - magnitude ELSE magnitude

\* data_dict[field_name] = value
Put(dict, name, value) ==
    [k \in DOMAIN dict \cup {name} |-> IF k = name THEN value ELSE dict[k]]

Temperature == <<"t", "e", "m", "p", "e", "r", "a", "t", "u", "r", "e">>
Humidity == <<"h", "u", "m", "i", "d", "i", "t", "y">>
Pressure == <<"p", "r", "e", "s", "s", "u", "r", "e">>
Windspeed == <<"w", "i", "n", "d", "s", "p", "e", "e", "d">>
Wind_speed == <<"w", "i", "n", "d", "_", "s", "p", "e", "e", "d">>

\* field_mapping.get(key, key.lower())
FieldName(key) ==
    CASE key = <<"T">> -> Temperature
      [] key = <<"H">> -> Humidity
      [] key = <<"P">> -> Pressure
      [] key = <<"W", "S">> -> Windspeed
      [] OTHER -> ToLower(key)

\* Faulty variant: the loop over the pairs ends at a value that does not convert
ValueErrorBreaks(pairs) == <<>>
\* "except ValueError: ... continue": the pairs still to be looked at
ValueErrorContinues(pairs) == Tail(pairs)

\* "for pair in data_line.split(' '):" of the token-based parsers
RECURSIVE TokenLoop(_, _)
TokenLoop(pairs, data_dict) ==
    IF pairs = <<>> THEN data_dict
    ELSE LET pair == Head(pairs)
             colon == Find(pair, ":")
             key == Strip(SubSeq(pair, 1, colon - 1))
             value == SubSeq(pair, colon + 1, Len(pair))
         IN IF colon = 0
            THEN TokenLoop(Tail(pairs), data_dict)
            ELSE IF IsFloatText(Strip(value))
            THEN TokenLoop(Tail(pairs),
                           Put(data_dict, FieldName(key), FloatOf(Strip(value))))
            ELSE TokenLoop(ValueErrorContinues(pairs), data_dict)

\* WeatherStationCollector.parse_weather_data (weather_collector.py and
\* rotse_weatherd/main.py hold the same code): an empty dict is returned as None
WeatherStationCollector_parse_weather_data(text) ==
    TokenLoop(Split(Strip(text), " "), NoReading)

\* WeatherStationDaemon.parse_weather_data (weather_daemon.py): as above, with
\* "if not data_line: return None" in front
WeatherStationDaemon_parse_weather_data(text) ==
    IF Strip(text) = <<>> THEN NoReading
    ELSE TokenLoop(Split(Strip(text), " "), NoReading)

\* The pattern's (\d+\.?\d*) tried at place i of str, greedily: the place after
\* the number, 0 when there is no digit at i
RECURSIVE DigitsEnd(_, _)
DigitsEnd(str, i) == IF i <= Len(str) /\ IsDigit(str[i]) THEN DigitsEnd(str, i + 1) ELSE i
NumberEnd(str, i) ==
    IF i > Len(str) \/ ~IsDigit(str[i]) THEN 0
    ELSE LET a == DigitsEnd(str, i) IN
         IF a <= Len(str) /\ str[a] = "." THEN DigitsEnd(str, a + 1) ELSE a

\* The pattern's \s+ tried at place i: the place after the whitespace, 0 when
\* there is none at i
RECURSIVE SpaceEnd(_, _)
SpaceEnd(str, i) == IF i <= Len(str) /\ IsSpace(str[i]) THEN SpaceEnd(str, i + 1) ELSE i
SpacesEnd(str, i) == IF i > Len(str) \/ ~IsSpace(str[i]) THEN 0 ELSE SpaceEnd(str, i)

\* A literal of the pattern at place i
LiteralAt(str, i, lit) ==
    /\ i >= 1
    /\ i + Len(lit) - 1 <= Len(str)
    /\ SubSeq(str, i, i + Len(lit) - 1) = lit

\* One labelled number of the pattern, "T:(\d+\.?\d*)", at place i: the place
\* after it, 0 when it does not match
FieldEnd(str, i, label) ==
    IF i >= 1 /\ LiteralAt(str, i, label \o <<":">>)
    THEN NumberEnd(str, i + Len(label) + 1) ELSE 0

\* The next labelled number after the whitespace that follows place i: a
\* number that stops in front of a character that is not whitespace cannot
\* be made to match by giving digits back
NextField(str, i) == IF i = 0 THEN 0 ELSE SpacesEnd(str, i)

\* The four groups of the pattern matched from place i, <<>> when it does not
\* match there
GroupsAt(str, i) ==
    LET t1 == FieldEnd(str, i, <<"T">>)
        h0 == NextField(str, t1)
        h1 == FieldEnd(str, h0, <<"H">>)
        p0 == NextField(str, h1)
        p1 == FieldEnd(str, p0, <<"P">>)
        w0 == NextField(str, p1)
        w1 == FieldEnd(str, w0, <<"W", "S">>)
    IN IF t1 = 0 \/ h0 = 0 \/ h1 = 0 \/ p0 = 0 \/ p1 = 0 \/ w0 = 0 \/ w1 = 0
       THEN <<>>
       ELSE <<SubSeq(str, i + 2, t1 - 1), SubSeq(str, h0 + 2, h1 - 1),
              SubSeq(str, p0 + 2, p1 - 1), SubSeq(str, w0 + 3, w1 - 1)>>

\* WeatherDaemon.parse_weather_data (weather-daemon.py): re.search takes the
\* leftmost place where the whole pattern matches
WeatherDaemon_parse_weather_data(text) ==
    LET places == {i \in 1..Len(text) : GroupsAt(text, i) # <<>>} IN
    IF places = {} THEN NoReading
    ELSE LET match == GroupsAt(text, CHOOSE i \in places : \A j \in places : i <= j) IN
         [k \in {Temperature, Humidity, Pressure, Wind_speed} |->
            CASE k = Temperature -> FloatOf(match[1])
              [] k = Humidity -> FloatOf(match[2])
              [] k = Pressure -> FloatOf(match[3])
              [] OTHER -> FloatOf(match[4])]

\* The configuration load_config leaves
Configured(serial_retries, influx_retries, clock) ==
    /\ restart_on_hang \in BOOLEAN
    /\ max_serial_retries = serial_retries
    /\ max_influx_retries = influx_retries
    /\ timed = clock

\* No call of parse_weather_data is followed
ParserIdle ==
    /\ tokens = <<>>
    /\ data_line = <<>>
    /\ parsed = [by |-> "nobody", result |-> NoReading]

\* The daemon object after __init__, with run() about to start
Constructed ==
    /\ running = TRUE
    /\ serial_connection = "none"
    /\ influx_client = "none"
    /\ serial_retry_count = 0
    /\ influx_retry_count = 0
    /\ data_queue = <<>>
    /\ captured = 0
    /\ delivered = {}
    /\ pc = [t \in Threads |->
                CASE t = "main" -> "start_serial"
                  [] t = "sender" -> "w_top"
                  [] t = "watchdog" -> "wd_check"]
    /\ retry_count = [t \in Connectors |-> 0]
    /\ caller = "start"
    /\ weather_data = 0
    /\ batch_n = 0
    /\ batch_i = 0
    /\ sent_count = 0
    /\ failed_items = <<>>
    /\ remaining = 0
    /\ attempts = [t \in Connectors |-> 0]
    /\ sleeps = [t \in Connectors |-> 0]
    /\ snapValid = FALSE
    /\ snapQueue = <<>>
    /\ snapSent = <<>>
    /\ snapCycles = 0
    /\ consumed = FALSE
    /\ consecutive_errors = 0
    /\ line = <<>>
    /\ hb_age = 0
    /\ data_age = 0
    /\ timer = [t \in Threads |-> 0]
    /\ wd_elapsed = 0
    /\ influx_closed = FALSE

\* Scaled-down retry limits, elapsed time not followed
Init ==
    /\ Constructed
    /\ Configured(MaxSerialRetries, MaxInfluxRetries, FALSE)
    /\ ParserIdle

(***************************************************************************)
(* connect_serial, run by the main thread and by the watchdog thread       *)
(***************************************************************************)
CS_Attempt(t, outcomes) ==
    /\ pc[t] = "cs_loop"
    /\ Awake(t)
    /\ RetryLoopCond(retry_count[t], max_serial_retries, running)
    /\ \E outcome \in outcomes :
        /\ serial_connection' = SerialAfter(outcome, serial_connection)
        /\ attempts' = [attempts EXCEPT ![t] = @ + 1]
        /\ IF outcome = "ok"
           THEN /\ serial_retry_count' = 0
                /\ Goto(t, "cs_ret_true")
                /\ UNCHANGED retry_count
           ELSE /\ retry_count' = [retry_count EXCEPT ![t] = @ + 1]
                /\ serial_retry_count' =
                     IF outcome \in {"serial_exc_open", "serial_exc_flush"}
                     THEN retry_count[t] + 1
                     ELSE serial_retry_count
                /\ Goto(t, IF SleepAfterFailure(retry_count[t] + 1, max_serial_retries)
                           THEN "cs_sleep" ELSE "cs_loop")
    /\ UNCHANGED <<consecutive_errors, line, hb_age, data_age, timer, wd_elapsed, influx_closed>>
    /\ UNCHANGED <<running, cfgVars, parseVars, influx_client, influx_retry_count,
                   data_queue, captured, delivered, sleeps, caller, weather_data,
                   batchVars, remaining, snapVars>>

CS_Sleep(t) ==
    /\ pc[t] = "cs_sleep"
    /\ Awake(t)
    /\ Goto(t, "cs_loop")
    /\ sleeps' = [sleeps EXCEPT ![t] = @ + 1]
    /\ Sleep(t, SerialRetryDelay)
    /\ UNCHANGED <<consecutive_errors, line, hb_age, data_age, wd_elapsed, influx_closed>>
    /\ UNCHANGED <<running, cfgVars, parseVars, connVars, data_queue, captured,
                   delivered, retry_count, attempts, caller, weather_data,
                   batchVars, remaining, snapVars>>

CS_Exhausted(t) ==
    /\ pc[t] = "cs_loop"
    /\ Awake(t)
    /\ ~RetryLoopCond(retry_count[t], max_serial_retries, running)
    /\ Goto(t, "cs_ret_false")
    /\ UNCHANGED <<consecutive_errors, line, hb_age, data_age, timer, wd_elapsed, influx_closed>>
    /\ UNCHANGED <<running, cfgVars, parseVars, connVars, data_queue, captured,
                   delivered, episodeVars, caller, weather_data, batchVars,
                   remaining, snapVars>>

(***************************************************************************)
(* connect_influxdb, run by the main thread only                           *)
(***************************************************************************)
CI_Attempt(outcomes) ==
    /\ pc["main"] = "ci_loop"
    /\ Awake("main")
    /\ RetryLoopCond(retry_count["main"], max_influx_retries, running)
    /\ \E outcome \in outcomes :
        /\ influx_client' = InfluxAfter(outcome, influx_client)
        /\ attempts' = [attempts EXCEPT !["main"] = @ + 1]
        /\ IF outcome = "ok"
           THEN /\ influx_retry_count' = 0
                /\ Goto("main", "ci_ret_true")
                /\ UNCHANGED retry_count
           ELSE /\ retry_count' = [retry_count EXCEPT !["main"] = @ + 1]
                /\ influx_retry_count' = retry_count["main"] + 1
                /\ Goto("main", IF SleepAfterFailure(retry_count["main"] + 1, max_influx_retries)
                                THEN "ci_sleep" ELSE "ci_loop")
    /\ UNCHANGED <<consecutive_errors, line, hb_age, data_age, timer, wd_elapsed, influx_closed>>
    /\ UNCHANGED <<running, cfgVars, parseVars, serial_connection, serial_retry_count,
                   data_queue, captured, delivered, sleeps, caller, weather_data,
                   batchVars, remaining, snapVars>>

CI_Sleep ==
    /\ pc["main"] = "ci_sleep"
    /\ Awake("main")
    /\ Goto("main", "ci_loop")
    /\ sleeps' = [sleeps EXCEPT !["main"] = @ + 1]
    /\ Sleep("main", InfluxRetryDelay)
    /\ UNCHANGED <<consecutive_errors, line, hb_age, data_age, wd_elapsed, influx_closed>>
    /\ UNCHANGED <<running, cfgVars, parseVars, connVars, data_queue, captured,
                   delivered, retry_count, attempts, caller, weather_data,
                   batchVars, remaining, snapVars>>

CI_Exhausted ==
    /\ pc["main"] = "ci_loop"
    /\ Awake("main")
    /\ ~RetryLoopCond(retry_count["main"], max_influx_retries, running)
    /\ Goto("main", "ci_ret_false")
    /\ UNCHANGED <<consecutive_errors, line, hb_age, data_age, timer, wd_elapsed, influx_closed>>
    /\ UNCHANGED <<running, cfgVars, parseVars, connVars, data_queue, captured,
                   delivered, episodeVars, caller, weather_data, batchVars,
                   remaining, snapVars>>

(***************************************************************************)
(* run: start-up and the acquisition loop (main thread)                    *)
(***************************************************************************)
\* "if not self.connect_serial():" at start-up
M_StartSerial ==
    /\ pc["main"] = "start_serial"
    /\ Awake("main")
    /\ EnterEpisode("main", "cs_loop", serial_retry_count)
    /\ caller' = "start"
    /\ UNCHANGED <<consecutive_errors, line, hb_age, data_age, timer, wd_elapsed, influx_closed>>
    /\ UNCHANGED <<running, cfgVars, parseVars, connVars, data_queue, captured,
                   delivered, weather_data, batchVars, remaining, snapVars>>

\* "if not self.connect_influxdb():" at start-up
M_StartInflux ==
    /\ pc["main"] = "start_influx"
    /\ Awake("main")
    /\ EnterEpisode("main", "ci_loop", influx_retry_count)
    /\ caller' = "start"
    /\ UNCHANGED <<consecutive_errors, line, hb_age, data_age, timer, wd_elapsed, influx_closed>>
    /\ UNCHANGED <<running, cfgVars, parseVars, connVars, data_queue, captured,
                   delivered, weather_data, batchVars, remaining, snapVars>>

\* Faulty variant: the iteration goes on after a failed reconnection
ReadAnyway(connected) == "check_influx"
\* "if not self.connect_serial(): time.sleep(...); continue" in the loop
AfterReconnect(connected) == IF connected THEN "check_influx" ELSE "loop_top"

\* connect_serial returns to run: start-up goes on to connect_influxdb in either
\* case; the loop's connection check sleeps and continues on failure; the
\* SerialException handler of the read falls through to the end of the iteration
M_SerialReturned ==
    /\ pc["main"] \in {"cs_ret_true", "cs_ret_false"}
    /\ Awake("main")
    /\ ForgetEpisode("main")
    /\ CASE caller = "start" ->
              /\ Goto("main", "start_influx")
              /\ UNCHANGED <<timer, consecutive_errors>>
         [] caller = "loop" ->
              /\ Goto("main", AfterReconnect(pc["main"] = "cs_ret_true"))
              /\ IF pc["main"] = "cs_ret_true" THEN UNCHANGED timer
                 ELSE Sleep("main", SerialRetryDelay)
              /\ UNCHANGED consecutive_errors
         [] OTHER ->
              EndIteration(consecutive_errors,
                           IF pc["main"] = "cs_ret_false" THEN SerialRetryDelay ELSE 0)
    /\ UNCHANGED <<line, hb_age, data_age, wd_elapsed, influx_closed>>
    /\ UNCHANGED <<running, cfgVars, parseVars, connVars, data_queue, captured,
                   delivered, caller, weather_data, batchVars, remaining, snapVars>>

\* connect_influxdb returns to run: the result is ignored by the loop
M_InfluxReturned ==
    /\ pc["main"] \in {"ci_ret_true", "ci_ret_false"}
    /\ Awake("main")
    /\ LeaveEpisode("main", IF caller = "start" THEN "loop_top" ELSE "read")
    /\ UNCHANGED <<consecutive_errors, line, hb_age, data_age, timer, wd_elapsed, influx_closed>>
    /\ UNCHANGED <<running, cfgVars, parseVars, connVars, data_queue, captured,
                   delivered, caller, weather_data, batchVars, remaining, snapVars>>

\* "while self.running:", heartbeat, "Check serial connection"
M_LoopTop ==
    /\ pc["main"] = "loop_top"
    /\ Awake("main")
    /\ IF ~running
       THEN /\ Goto("main", "cl_join")
            /\ UNCHANGED <<episodeVars, caller, hb_age>>
       ELSE /\ hb_age' = 0
            /\ IF serial_connection # "open"
               THEN /\ EnterEpisode("main", "cs_loop", serial_retry_count)
                    /\ caller' = "loop"
               ELSE /\ Goto("main", "check_influx")
                    /\ UNCHANGED <<episodeVars, caller>>
    /\ UNCHANGED <<consecutive_errors, line, data_age, timer, wd_elapsed, influx_closed>>
    /\ UNCHANGED <<running, cfgVars, parseVars, connVars, data_queue, captured,
                   delivered, weather_data, batchVars, remaining, snapVars>>

\* "Check InfluxDB connection"
M_CheckInflux ==
    /\ pc["main"] = "check_influx"
    /\ Awake("main")
    /\ IF influx_client = "none"
       THEN /\ EnterEpisode("main", "ci_loop", influx_retry_count)
            /\ caller' = "loop"
       ELSE /\ Goto("main", "read")
            /\ UNCHANGED <<episodeVars, caller>>
    /\ UNCHANGED <<consecutive_errors, line, hb_age, data_age, timer, wd_elapsed, influx_closed>>
    /\ UNCHANGED <<running, cfgVars, parseVars, connVars, data_queue, captured,
                   delivered, weather_data, batchVars, remaining, snapVars>>

\* Faulty variant: last_data_time is refreshed once the Reading has been sent
RefreshedWhenSent(age, sent) == IF sent THEN 0 ELSE age
\* "if weather_data: self.last_data_time = datetime.now()", before the send
DataAgeAfterReading(age, sent) == 0

\* What one pass over "Read from serial" finds.
ReadOutcomes == {"no_data", "empty_line", "unparseable", "reading",
                 "serial_error", "decode_error", "unexpected_error"}

\* What one pass over "Read from serial" does when it finds outcome: the read,
\* the parse, the immediate send and the handlers, down to the end of the
\* iteration.  "unexpected_error" is an exception that is neither a
\* SerialException nor a UnicodeDecodeError: the outer handler counts it and
\* sleeps, and the threshold check is not reached.
ReadEffect(outcome) ==
    CASE outcome = "reading" ->
           /\ captured < MaxReadings
           /\ captured' = captured + 1
           /\ \E write \in WriteOutcomes :
                LET sent == influx_client = "client" /\ send_to_influxdb(write) IN
                /\ data_age' = DataAgeAfterReading(data_age, sent)
                /\ delivered' = IF influx_client = "client" /\ Accepted(write)
                                THEN delivered \cup {captured + 1}
                                ELSE delivered
                /\ IF ShouldQueue(sent)
                   THEN /\ weather_data' = captured + 1
                        /\ Goto("main", "q_full")
                        /\ UNCHANGED <<consecutive_errors, timer>>
                   ELSE /\ weather_data' = 0
                        /\ EndIteration(0, 0)
           /\ UNCHANGED <<episodeVars, caller>>
      [] outcome = "serial_error" ->
           /\ consecutive_errors < MaxErrorCount
           /\ consecutive_errors' = consecutive_errors + 1
           /\ EnterEpisode("main", "cs_loop", serial_retry_count)
           /\ caller' = "exc"
           /\ UNCHANGED <<captured, delivered, weather_data, data_age, timer>>
      [] outcome = "decode_error" ->
           /\ consecutive_errors < MaxErrorCount
           /\ EndIteration(consecutive_errors + 1, 0)
           /\ UNCHANGED <<captured, delivered, weather_data, data_age,
                          episodeVars, caller>>
      [] outcome = "unexpected_error" ->
           /\ consecutive_errors < MaxErrorCount
           /\ consecutive_errors' = consecutive_errors + 1
           /\ Goto("main", "loop_top")
           /\ Sleep("main", ReadInterval)
           /\ UNCHANGED <<captured, delivered, weather_data, data_age,
                          episodeVars, caller>>
      [] OTHER ->
           /\ EndIteration(consecutive_errors, 0)
           /\ UNCHANGED <<captured, delivered, weather_data, data_age,
                          episodeVars, caller>>

\* "Read from serial" with the outcome chosen directly
M_Read(outcomes) ==
    /\ pc["main"] = "read"
    /\ Awake("main")
    /\ IF serial_connection # "open"
       THEN /\ EndIteration(consecutive_errors, 0)
            /\ UNCHANGED <<captured, delivered, weather_data, data_age,
                           episodeVars, caller>>
       ELSE \E outcome \in outcomes : ReadEffect(outcome)
    /\ UNCHANGED <<line, hb_age, wd_elapsed, influx_closed>>
    /\ UNCHANGED <<running, cfgVars, parseVars, connVars, data_queue, batchVars,
                   remaining, snapVars>>

\* Faulty variant: whatever the parser returns is taken for a Reading
AnyResultIsReading(result) == TRUE
\* "if weather_data:"
IsReading(result) == result # NoReading

\* What the loop makes of a received line: "if line:", the parse and
\* "if weather_data:"
LineOutcome(received) ==
    IF received = <<>> THEN "empty_line"
    ELSE IF IsReading(WeatherDaemon_parse_weather_data(received)) THEN "reading"
    ELSE "unparseable"

\* "Read from serial" with the received line chosen: readline().decode().strip()
M_ReadLine(lines) ==
    /\ pc["main"] = "read"
    /\ Awake("main")
    /\ serial_connection = "open"
    /\ \E received \in lines :
         /\ line' = Strip(received)
         /\ ReadEffect(LineOutcome(Strip(received)))
    /\ UNCHANGED <<hb_age, wd_elapsed, influx_closed>>
    /\ UNCHANGED <<running, cfgVars, parseVars, connVars, data_queue, batchVars,
                   remaining, snapVars>>

(***************************************************************************)
(* queue_data (main thread)                                                *)
(***************************************************************************)
\* "if self.data_queue.full():"
Q_Full ==
    /\ pc["main"] = "q_full"
    /\ Awake("main")
    /\ Goto("main", IF QueueFull(data_queue) THEN "q_evict" ELSE "q_put")
    /\ UNCHANGED <<consecutive_errors, line, hb_age, data_age, timer, wd_elapsed, influx_closed>>
    /\ UNCHANGED <<running, cfgVars, parseVars, connVars, data_queue, captured,
                   delivered, episodeVars, caller, weather_data, batchVars,
                   remaining, snapVars>>

\* "old_data = self.data_queue.get_nowait()"
Q_Evict ==
    /\ pc["main"] = "q_evict"
    /\ Awake("main")
    /\ data_queue' = EvictOldest(data_queue)
    /\ Goto("main", "q_put")
    /\ IF data_queue # <<>> THEN Invalidate
       ELSE UNCHANGED <<snapValid, snapQueue, snapSent, snapCycles>>
    /\ UNCHANGED consumed
    /\ UNCHANGED <<consecutive_errors, line, hb_age, data_age, timer, wd_elapsed, influx_closed>>
    /\ UNCHANGED <<running, cfgVars, parseVars, connVars, captured, delivered,
                   episodeVars, caller, weather_data, batchVars, remaining>>

\* "self.data_queue.put_nowait((weather_data, timestamp))"
Q_Put ==
    /\ pc["main"] = "q_put"
    /\ Awake("main")
    /\ data_queue' = PutOrLose(data_queue, weather_data)
    /\ weather_data' = 0
    /\ EndIteration(consecutive_errors, 0)
    /\ IF data_queue' # data_queue THEN Invalidate
       ELSE UNCHANGED <<snapValid, snapQueue, snapSent, snapCycles>>
    /\ UNCHANGED consumed
    /\ UNCHANGED <<line, hb_age, data_age, wd_elapsed, influx_closed>>
    /\ UNCHANGED <<running, cfgVars, parseVars, connVars, captured, delivered,
                   episodeVars, caller, batchVars, remaining>>

(***************************************************************************)
(* data_sender_worker (sender thread)                                      *)
(***************************************************************************)
\* "while self.running:" and "if self.data_queue.empty(): sleep; continue"
W_Top ==
    /\ pc["sender"] = "w_top"
    /\ Awake("sender")
    /\ IF ~running
       THEN /\ Goto("sender", "done")
            /\ UNCHANGED timer
       ELSE IF data_queue = <<>>
       THEN /\ Sleep("sender", QueueFlushInterval)
            /\ UNCHANGED pc
       ELSE /\ Goto("sender", "w_size")
            /\ UNCHANGED timer
    /\ UNCHANGED <<consecutive_errors, line, hb_age, data_age, wd_elapsed, influx_closed>>
    /\ UNCHANGED <<running, cfgVars, parseVars, connVars, data_queue, captured,
                   delivered, episodeVars, caller, weather_data, batchVars,
                   remaining, snapVars>>

\* "if self.influx_client:" and the start of a batch cycle; without a client
\* the worker sleeps influx_retry_delay and starts over
W_Size ==
    /\ pc["sender"] = "w_size"
    /\ Awake("sender")
    /\ IF influx_client = "client"
       THEN /\ UNCHANGED timer
            /\ batch_n' = BatchSize(Len(data_queue))
            /\ batch_i' = 0
            /\ sent_count' = 0
            /\ failed_items' = <<>>
            /\ Goto("sender", "w_batch")
            /\ IF snapValid
               THEN /\ snapCycles' = snapCycles + 1
                    /\ UNCHANGED <<snapValid, snapQueue, snapSent, consumed>>
               ELSE IF data_queue # <<>>
               THEN /\ snapValid' = TRUE
                    /\ snapQueue' = data_queue
                    /\ snapSent' = <<>>
                    /\ snapCycles' = 1
                    /\ UNCHANGED consumed
               ELSE UNCHANGED snapVars
       ELSE /\ Goto("sender", "w_top")
            /\ Sleep("sender", InfluxRetryDelay)
            /\ UNCHANGED <<batchVars, snapVars>>
    /\ UNCHANGED <<consecutive_errors, line, hb_age, data_age, wd_elapsed, influx_closed>>
    /\ UNCHANGED <<running, cfgVars, parseVars, connVars, data_queue, captured,
                   delivered, episodeVars, caller, weather_data, remaining>>

\* One iteration of the batch loop: get_nowait() and send_to_influxdb();
\* queue.Empty breaks out of the loop
W_Take ==
    /\ pc["sender"] = "w_batch"
    /\ Awake("sender")
    /\ batch_i < batch_n
    /\ IF data_queue = <<>>
       THEN /\ Goto("sender", "w_requeue")
            /\ UNCHANGED <<data_queue, delivered, batchVars, snapVars>>
       ELSE \E write \in WriteOutcomes :
            LET item == Head(data_queue)
                write_ok == send_to_influxdb(write) IN
            /\ data_queue' = get_nowait(data_queue)
            /\ delivered' = IF Accepted(write) THEN delivered \cup {item} ELSE delivered
            /\ sent_count' = IF write_ok THEN sent_count + 1 ELSE sent_count
            /\ failed_items' = FailedAfterSend(failed_items, item, write_ok)
            /\ batch_i' = batch_i + 1
            /\ UNCHANGED <<batch_n, pc>>
            /\ consumed' = TRUE
            /\ IF write_ok /\ snapValid
               THEN /\ snapSent' = Append(snapSent, item)
                    /\ UNCHANGED <<snapValid, snapQueue, snapCycles>>
               ELSE Invalidate
    /\ UNCHANGED <<consecutive_errors, line, hb_age, data_age, timer, wd_elapsed, influx_closed>>
    /\ UNCHANGED <<running, cfgVars, parseVars, connVars, captured, episodeVars,
                   caller, weather_data, remaining>>

\* The batch loop ran range(n) to its end
W_BatchDone ==
    /\ pc["sender"] = "w_batch"
    /\ Awake("sender")
    /\ batch_i >= batch_n
    /\ Goto("sender", "w_requeue")
    /\ UNCHANGED <<consecutive_errors, line, hb_age, data_age, timer, wd_elapsed, influx_closed>>
    /\ UNCHANGED <<running, cfgVars, parseVars, connVars, data_queue, captured,
                   delivered, episodeVars, caller, weather_data, batchVars,
                   remaining, snapVars>>

\* "Re-queue failed items": one put_nowait() per failed item
W_Requeue ==
    /\ pc["sender"] = "w_requeue"
    /\ Awake("sender")
    /\ failed_items # <<>>
    /\ data_queue' = Requeue(data_queue, Head(failed_items))
    /\ failed_items' = Tail(failed_items)
    /\ UNCHANGED <<consecutive_errors, line, hb_age, data_age, timer, wd_elapsed, influx_closed>>
    /\ UNCHANGED <<running, cfgVars, parseVars, connVars, captured, delivered, pc,
                   episodeVars, caller, weather_data, batch_n, batch_i,
                   sent_count, remaining, snapVars>>

\* End of the cycle: the worker goes back to "while self.running:"
W_CycleEnd ==
    /\ pc["sender"] = "w_requeue"
    /\ Awake("sender")
    /\ failed_items = <<>>
    /\ Goto("sender", "w_top")
    /\ batch_n' = 0
    /\ batch_i' = 0
    /\ sent_count' = 0
    /\ UNCHANGED <<consecutive_errors, line, hb_age, data_age, timer, wd_elapsed, influx_closed>>
    /\ UNCHANGED <<running, cfgVars, parseVars, connVars, data_queue, captured,
                   delivered, episodeVars, caller, weather_data, failed_items,
                   remaining, snapVars>>

(***************************************************************************)
(* watchdog_worker (watchdog thread)                                       *)
(***************************************************************************)
\* (now - self.last_data_time).total_seconds() > self.data_timeout
DataStale == IF timed THEN {data_age > DataTimeout} ELSE BOOLEAN
\* Faulty variant: the reconnection does not depend on the age of the data
ReconnectWhenOpen(stale, open) == open
\* "if (now - self.last_data_time) ... > self.data_timeout:" and, inside it,
\* "if self.serial_connection and self.serial_connection.is_open:"
ShouldReconnect(stale, open) == stale /\ open

\* Faulty variant: the time since "now" is compared, not the heartbeat's age
HeartbeatStaleSinceNow == IF timed THEN {wd_elapsed > WatchdogTimeout} ELSE BOOLEAN
\* (now - self.last_heartbeat).total_seconds() > self.watchdog_timeout, with
\* the "now" taken at the start of the cycle
HeartbeatStale == IF timed THEN {hb_age - wd_elapsed > WatchdogTimeout} ELSE BOOLEAN

\* "while self.running:" and the data staleness check
D_Check ==
    /\ pc["watchdog"] = "wd_check"
    /\ Awake("watchdog")
    /\ IF ~running
       THEN /\ Goto("watchdog", "done")
            /\ UNCHANGED <<episodeVars, wd_elapsed>>
       ELSE /\ wd_elapsed' = 0
            /\ \E data_stale \in DataStale :
                 IF ShouldReconnect(data_stale, serial_connection = "open")
                 THEN EnterEpisode("watchdog", "cs_loop", serial_retry_count)
                 ELSE /\ Goto("watchdog", "wd_heartbeat")
                      /\ UNCHANGED episodeVars
    /\ UNCHANGED <<consecutive_errors, line, hb_age, data_age, timer, influx_closed>>
    /\ UNCHANGED <<running, cfgVars, parseVars, connVars, data_queue, captured,
                   delivered, caller, weather_data, batchVars, remaining, snapVars>>

\* Faulty variant: the watchdog takes its reconnection for fresh data
ReconnectRefreshesData(age) == 0
\* watchdog_worker reads last_data_time and never assigns it
DataAgeAfterReconnect(age) == age

\* self.connect_serial() returns to the watchdog, which ignores the result
D_SerialReturned ==
    /\ pc["watchdog"] \in {"cs_ret_true", "cs_ret_false"}
    /\ Awake("watchdog")
    /\ LeaveEpisode("watchdog", "wd_heartbeat")
    /\ data_age' = DataAgeAfterReconnect(data_age)
    /\ UNCHANGED <<consecutive_errors, line, hb_age, timer, wd_elapsed, influx_closed>>
    /\ UNCHANGED <<running, cfgVars, parseVars, connVars, data_queue, captured,
                   delivered, caller, weather_data, batchVars, remaining, snapVars>>

\* The loop staleness check: os._exit(1) ends every thread at once
D_Heartbeat ==
    /\ pc["watchdog"] = "wd_heartbeat"
    /\ Awake("watchdog")
    /\ \E hung \in HeartbeatStale :
         IF hung /\ ShouldExit(restart_on_hang)
         THEN /\ pc' = [t \in Threads |-> "exited"]
              /\ UNCHANGED timer
         ELSE /\ Goto("watchdog", "wd_check")
              /\ Sleep("watchdog", HealthCheckInterval)
    /\ UNCHANGED <<consecutive_errors, line, hb_age, data_age, wd_elapsed, influx_closed>>
    /\ UNCHANGED <<running, cfgVars, parseVars, connVars, data_queue, captured,
                   delivered, episodeVars, caller, weather_data, batchVars,
                   remaining, snapVars>>

(***************************************************************************)
(* signal_handler and cleanup (main thread)                                *)
(***************************************************************************)
signal_handler ==
    /\ running
    /\ pc["main"] # "exited"
    /\ running' = FALSE
    /\ UNCHANGED <<consecutive_errors, line, hb_age, data_age, timer, wd_elapsed, influx_closed>>
    /\ UNCHANGED <<cfgVars, parseVars, connVars, data_queue, captured, delivered, pc,
                   episodeVars, caller, weather_data, batchVars, remaining, snapVars>>

\* The two joins return when the thread has ended or when their timeout
\* (5 s, 10 s) runs out; then "if self.influx_client and not empty()"
C_Join ==
    /\ pc["main"] = "cl_join"
    /\ Awake("main")
    /\ IF influx_client = "client" /\ data_queue # <<>>
       THEN Goto("main", "cl_size")
       ELSE Goto("main", "cl_close")
    /\ UNCHANGED <<consecutive_errors, line, hb_age, data_age, timer, wd_elapsed, influx_closed>>
    /\ UNCHANGED <<running, cfgVars, parseVars, connVars, data_queue, captured,
                   delivered, episodeVars, caller, weather_data, batchVars,
                   remaining, snapVars>>

\* "remaining = min(50, self.data_queue.qsize())"
C_Size ==
    /\ pc["main"] = "cl_size"
    /\ Awake("main")
    /\ remaining' = FinalDrainSize(Len(data_queue))
    /\ Goto("main", "cl_drain")
    /\ UNCHANGED <<consecutive_errors, line, hb_age, data_age, timer, wd_elapsed, influx_closed>>
    /\ UNCHANGED <<running, cfgVars, parseVars, connVars, data_queue, captured,
                   delivered, episodeVars, caller, weather_data, batchVars,
                   snapVars>>

\* One iteration of the final drain: get_nowait() and one send, no re-queue
C_Drain ==
    /\ pc["main"] = "cl_drain"
    /\ Awake("main")
    /\ IF remaining = 0 \/ data_queue = <<>>
       THEN /\ Goto("main", "cl_close")
            /\ remaining' = 0
            /\ UNCHANGED <<data_queue, delivered, snapVars>>
       ELSE \E write \in WriteOutcomes :
            /\ data_queue' = get_nowait(data_queue)
            /\ delivered' = IF Accepted(write) THEN delivered \cup {Head(data_queue)}
                            ELSE delivered
            /\ remaining' = remaining - 1
            /\ consumed' = TRUE
            /\ Invalidate
            /\ UNCHANGED pc
    /\ UNCHANGED <<consecutive_errors, line, hb_age, data_age, timer, wd_elapsed, influx_closed>>
    /\ UNCHANGED <<running, cfgVars, parseVars, connVars, captured, episodeVars,
                   caller, weather_data, batchVars>>

\* Faulty variant: cleanup leaves the serial connection as it is
LeftOpen(s) == s
\* "if self.serial_connection and self.serial_connection.is_open: close()"
CloseSerial(s) == IF s = "open" THEN "closed" ELSE s

\* The Source is released
C_Close ==
    /\ pc["main"] = "cl_close"
    /\ Awake("main")
    /\ serial_connection' = CloseSerial(serial_connection)
    /\ Goto("main", "cl_influx")
    /\ UNCHANGED <<consecutive_errors, line, hb_age, data_age, timer, wd_elapsed, influx_closed>>
    /\ UNCHANGED <<running, cfgVars, parseVars, influx_client, serial_retry_count,
                   influx_retry_count, data_queue, captured, delivered,
                   episodeVars, caller, weather_data, batchVars, remaining,
                   snapVars>>

\* "if self.influx_client: self.influx_client.close()"; cleanup returns
C_CloseInflux ==
    /\ pc["main"] = "cl_influx"
    /\ Awake("main")
    /\ influx_closed' = (influx_client # "none")
    /\ Goto("main", "done")
    /\ UNCHANGED <<consecutive_errors, line, hb_age, data_age, timer, wd_elapsed>>
    /\ UNCHANGED <<running, cfgVars, parseVars, connVars, data_queue, captured,
                   delivered, episodeVars, caller, weather_data, batchVars,
                   remaining, snapVars>>

\* A call of the acquisition loop blocks and never returns: the loop is hung
M_Hang ==
    /\ pc["main"] = "read"
    /\ Awake("main")
    /\ serial_connection = "open"
    /\ Goto("main", "hung")
    /\ UNCHANGED <<consecutive_errors, line, hb_age, data_age, timer, wd_elapsed, influx_closed>>
    /\ UNCHANGED <<running, cfgVars, parseVars, connVars, data_queue, captured,
                   delivered, episodeVars, caller, weather_data, batchVars,
                   remaining, snapVars>>

\* Time passes while every thread that is followed sleeps or has ended: the
\* sleeper due first wakes up.  The ages stop growing once they are beyond
\* every value they are compared with.
Tick(clocked) ==
    /\ timed
    /\ \A t \in clocked : timer[t] > 0 \/ pc[t] \in {"done", "exited", "hung"}
    /\ \E t \in clocked : timer[t] > 0 /\ pc[t] \notin {"done", "exited", "hung"}
    /\ LET due == {timer[t] : t \in {u \in clocked : timer[u] > 0
                                        /\ pc[u] \notin {"done", "exited", "hung"}}}
           d == CHOOSE x \in due : \A y \in due : x <= y
       IN /\ timer' = [t \in Threads |-> IF timer[t] > d THEN timer[t] - d ELSE 0]
          /\ hb_age' = Min(hb_age + d, WatchdogTimeout + HealthCheckInterval)
          /\ data_age' = Min(data_age + d, DataTimeout + 1)
          /\ wd_elapsed' = Min(wd_elapsed + d, HealthCheckInterval)
    /\ UNCHANGED <<running, cfgVars, parseVars, connVars, data_queue, captured,
                   delivered, pc, episodeVars, caller, weather_data, batchVars,
                   remaining, snapVars, consecutive_errors, line, influx_closed>>

Next ==
    \/ \E t \in Connectors : CS_Attempt(t, SerialOutcomes)
    \/ \E t \in Connectors : CS_Sleep(t)
    \/ \E t \in Connectors : CS_Exhausted(t)
    \/ CI_Attempt(InfluxOutcomes)
    \/ CI_Sleep
    \/ CI_Exhausted
    \/ M_StartSerial
    \/ M_StartInflux
    \/ M_SerialReturned
    \/ M_InfluxReturned
    \/ M_LoopTop
    \/ M_CheckInflux
    \/ M_Read(ReadOutcomes)
    \/ Q_Full
    \/ Q_Evict
    \/ Q_Put
    \/ W_Top
    \/ W_Size
    \/ W_Take
    \/ W_BatchDone
    \/ W_Requeue
    \/ W_CycleEnd
    \/ D_Check
    \/ D_SerialReturned
    \/ D_Heartbeat
    \/ signal_handler
    \/ C_Join
    \/ C_Size
    \/ C_Drain
    \/ C_Close
    \/ C_CloseInflux

\* The whole daemon.  Its state space is the product of the two parts below,
\* which are checked separately.
Spec == Init /\ [][Next]_vars

(***************************************************************************)
(* The queue pipeline: acquisition loop, queue_data, drain worker, signal  *)
(* and cleanup, with a Source that connects at the first attempt and       *)
(* raises no error.  The watchdog is left out: it writes only              *)
(* serial_connection and serial_retry_count, which no queue operation      *)
(* reads, and os._exit only stops every thread.                            *)
(***************************************************************************)
NextQueue ==
    \/ CS_Attempt("main", {"ok"})
    \/ CS_Exhausted("main")
    \/ CI_Attempt(InfluxOutcomes)
    \/ CI_Sleep
    \/ CI_Exhausted
    \/ M_StartSerial
    \/ M_StartInflux
    \/ M_SerialReturned
    \/ M_InfluxReturned
    \/ M_LoopTop
    \/ M_CheckInflux
    \/ M_Read({"no_data", "empty_line", "unparseable", "reading"})
    \/ Q_Full
    \/ Q_Evict
    \/ Q_Put
    \/ W_Top
    \/ W_Size
    \/ W_Take
    \/ W_BatchDone
    \/ W_Requeue
    \/ W_CycleEnd
    \/ signal_handler
    \/ C_Join
    \/ C_Size
    \/ C_Drain
    \/ C_Close
    \/ C_CloseInflux

SpecQueue == Init /\ [][NextQueue]_vars

(***************************************************************************)
(* The connections: connect_serial run by the main thread and by the       *)
(* watchdog, connect_influxdb, signal and cleanup, with a Source that      *)
(* delivers no Reading, so that the queue stays empty and the drain worker *)
(* idle.                                                                   *)
(***************************************************************************)
NextConn ==
    \/ \E t \in Connectors : CS_Attempt(t, SerialOutcomes)
    \/ \E t \in Connectors : CS_Sleep(t)
    \/ \E t \in Connectors : CS_Exhausted(t)
    \/ CI_Attempt(InfluxOutcomes)
    \/ CI_Sleep
    \/ CI_Exhausted
    \/ M_StartSerial
    \/ M_StartInflux
    \/ M_SerialReturned
    \/ M_InfluxReturned
    \/ M_LoopTop
    \/ M_CheckInflux
    \/ M_Read(ReadOutcomes \ {"reading"})
    \/ D_Check
    \/ D_SerialReturned
    \/ D_Heartbeat
    \/ signal_handler
    \/ C_Join
    \/ C_Close
    \/ C_CloseInflux

SpecConn == Init /\ [][NextConn]_vars

(***************************************************************************)
(* The daemon on the clock: the default retry limits and delays, the main  *)
(* thread and the watchdog, with elapsed time followed.  A step of a       *)
(* thread takes no time and a sleep takes exactly its delay, so the        *)
(* elapsed times here are the shortest the code can produce.  The drain    *)
(* worker is left out: no time that is compared with a limit depends on    *)
(* it.                                                                     *)
(***************************************************************************)
InitClock ==
    /\ Constructed
    /\ Configured(DefaultMaxSerialRetries, DefaultMaxInfluxRetries, TRUE)
    /\ ParserIdle

NextClock ==
    \/ \E t \in Connectors : CS_Attempt(t, {"ok", "serial_exc_open"})
    \/ \E t \in Connectors : CS_Sleep(t)
    \/ \E t \in Connectors : CS_Exhausted(t)
    \/ CI_Attempt(InfluxOutcomes)
    \/ CI_Sleep
    \/ CI_Exhausted
    \/ M_StartSerial
    \/ M_StartInflux
    \/ M_SerialReturned
    \/ M_InfluxReturned
    \/ M_LoopTop
    \/ M_CheckInflux
    \/ M_Read({"no_data"})
    \/ D_Check
    \/ D_SerialReturned
    \/ D_Heartbeat
    \/ Tick(Connectors)

SpecClock == InitClock /\ [][NextClock]_vars

(***************************************************************************)
(* Shutdown: the connections, the error handlers of the loop, the watchdog *)
(* and the idle drain worker, with the signal and cleanup.  Every thread   *)
(* is scheduled fairly; sleeps take no time here, so a sleeping thread     *)
(* goes on at once.                                                        *)
(***************************************************************************)
MainStep ==
    \/ CS_Attempt("main", {"ok", "serial_exc_open"})
    \/ CS_Sleep("main")
    \/ CS_Exhausted("main")
    \/ CI_Attempt(InfluxOutcomes)
    \/ CI_Sleep
    \/ CI_Exhausted
    \/ M_StartSerial
    \/ M_StartInflux
    \/ M_SerialReturned
    \/ M_InfluxReturned
    \/ M_LoopTop
    \/ M_CheckInflux
    \/ M_Read({"no_data", "decode_error"})
    \/ C_Join
    \/ C_Close
    \/ C_CloseInflux

WatchdogStopStep ==
    \/ CS_Attempt("watchdog", {"ok", "serial_exc_open"})
    \/ CS_Sleep("watchdog")
    \/ CS_Exhausted("watchdog")
    \/ D_Check
    \/ D_SerialReturned
    \/ D_Heartbeat

NextStop ==
    \/ MainStep
    \/ W_Top
    \/ WatchdogStopStep
    \/ signal_handler

SpecStop ==
    /\ Init
    /\ [][NextStop]_vars
    /\ WF_vars(MainStep)
    /\ WF_vars(W_Top)
    /\ WF_vars(WatchdogStopStep)

(***************************************************************************)
(* Cleanup: the acquisition loop with a Source that delivers Readings, the *)
(* watchdog reconnecting, the signal and the whole of cleanup.  The drain  *)
(* worker is left out, so that what the final drain finds in the queue is  *)
(* what the loop put there.                                                *)
(***************************************************************************)
NextCleanup ==
    \/ CS_Attempt("main", {"ok"})
    \/ CS_Exhausted("main")
    \/ CI_Attempt({"ok", "exc_ctor"})
    \/ CI_Sleep
    \/ CI_Exhausted
    \/ M_StartSerial
    \/ M_StartInflux
    \/ M_SerialReturned
    \/ M_InfluxReturned
    \/ M_LoopTop
    \/ M_CheckInflux
    \/ M_Read({"no_data", "reading"})
    \/ Q_Full
    \/ Q_Evict
    \/ Q_Put
    \/ WatchdogStopStep
    \/ signal_handler
    \/ C_Join
    \/ C_Size
    \/ C_Drain
    \/ C_Close
    \/ C_CloseInflux

SpecCleanup == Init /\ [][NextCleanup]_vars

(***************************************************************************)
(* The hung loop: the daemon on the clock with both connections made at    *)
(* the first attempt of start-up, a Source that stays silent, and an       *)
(* acquisition loop that may block for good.  The watchdog thread is       *)
(* scheduled fairly and time goes on.                                      *)
(***************************************************************************)
WatchdogStep ==
    \/ CS_Attempt("watchdog", {"ok", "serial_exc_open", "serial_exc_flush"})
    \/ CS_Sleep("watchdog")
    \/ CS_Exhausted("watchdog")
    \/ D_Check
    \/ D_SerialReturned
    \/ D_Heartbeat

NextHang ==
    \/ CS_Attempt("main", {"ok"})
    \/ CI_Attempt({"ok"})
    \/ M_StartSerial
    \/ M_StartInflux
    \/ M_SerialReturned
    \/ M_InfluxReturned
    \/ M_LoopTop
    \/ M_CheckInflux
    \/ M_Read({"no_data"})
    \/ M_Hang
    \/ WatchdogStep
    \/ Tick(Connectors)

SpecHang ==
    /\ InitClock
    /\ [][NextHang]_vars
    /\ WF_vars(WatchdogStep)
    /\ WF_vars(Tick(Connectors))

\* "T:22.6", "H:50.1", "P:1011.9", "WS:0.00", "T:abc", "garbage", "" (two
\* spaces in a row, or a space at an end of the line) and "X:-5"
TokT == <<"T", ":", "2", "2", ".", "6">>
TokH == <<"H", ":", "5", "0", ".", "1">>
TokP == <<"P", ":", "1", "0", "1", "1", ".", "9">>
TokWS == <<"W", "S", ":", "0", ".", "0", "0">>
TokBadT == <<"T", ":", "a", "b", "c">>
TokGarbage == <<"g", "a", "r", "b", "a", "g", "e">>
TokEmpty == <<>>
TokOther == <<"X", ":", "-", "5">>
TokColdT == <<"T", ":", "-", "5", ".", "2">>
TokenSet == {TokT, TokH, TokP, TokWS, TokBadT, TokGarbage, TokEmpty, TokOther,
             TokColdT}

\* " ".join(toks)
RECURSIVE Join(_)
Join(toks) ==
    IF toks = <<>> THEN <<>>
    ELSE IF Len(toks) = 1 THEN toks[1]
    ELSE toks[1] \o <<" ">> \o Join(Tail(toks))

(***************************************************************************)
(* The silent Source on the clock: both connections are made at the first  *)
(* attempt of start-up, the Source sends a Reading or nothing, and the     *)
(* watchdog looks at the age of the data and reconnects.                   *)
(***************************************************************************)
NextData ==
    \/ CS_Attempt("main", {"ok"})
    \/ CI_Attempt({"ok"})
    \/ M_StartSerial
    \/ M_StartInflux
    \/ M_SerialReturned
    \/ M_InfluxReturned
    \/ M_LoopTop
    \/ M_CheckInflux
    \/ M_Read({"no_data", "reading"})
    \/ Q_Full
    \/ Q_Evict
    \/ Q_Put
    \/ CS_Attempt("watchdog", {"ok", "serial_exc_open"})
    \/ CS_Sleep("watchdog")
    \/ CS_Exhausted("watchdog")
    \/ D_Check
    \/ D_SerialReturned
    \/ D_Heartbeat
    \/ Tick(Connectors)

SpecData == InitClock /\ [][NextData]_vars

(***************************************************************************)
(* The acquisition loop alone on the clock, reading lines: a whole line, a *)
(* line with a bad token, a line without any token, a blank line, or       *)
(* nothing.                                                                *)
(***************************************************************************)
\* "T:22.6 H:50.1 P:1011.9 WS:0.00", "garbage", "T:abc H:50.1" and a line of
\* one space
SourceLines == {Join(<<TokT, TokH, TokP, TokWS>>), TokGarbage,
                Join(<<TokBadT, TokH>>), <<" ">>}

NextLines ==
    \/ CS_Attempt("main", {"ok"})
    \/ CI_Attempt({"ok"})
    \/ M_StartSerial
    \/ M_StartInflux
    \/ M_SerialReturned
    \/ M_InfluxReturned
    \/ M_LoopTop
    \/ M_CheckInflux
    \/ M_Read({"no_data"})
    \/ M_ReadLine(SourceLines)
    \/ Q_Full
    \/ Q_Evict
    \/ Q_Put
    \/ Tick({"main"})

SpecLines == InitClock /\ [][NextLines]_vars

(***************************************************************************)
(* The drain worker on the clock: the acquisition loop delivers Readings   *)
(* whose immediate send may fail, and the worker sends what is queued.     *)
(* The worker is awake whenever the queue holds an item and a Reading      *)
(* arrives every read_interval at most, so the queue never fills up here   *)
(* and queue_data never evicts.                                            *)
(***************************************************************************)
NextDrain ==
    \/ CS_Attempt("main", {"ok"})
    \/ CI_Attempt({"ok"})
    \/ M_StartSerial
    \/ M_StartInflux
    \/ M_SerialReturned
    \/ M_InfluxReturned
    \/ M_LoopTop
    \/ M_CheckInflux
    \/ M_Read({"no_data", "reading"})
    \/ Q_Full
    \/ Q_Put
    \/ W_Top
    \/ W_Size
    \/ W_Take
    \/ W_BatchDone
    \/ W_Requeue
    \/ W_CycleEnd
    \/ Tick({"main", "sender"})

SpecDrain == InitClock /\ [][NextDrain]_vars

(***************************************************************************)
(* The Source connection in the loop: the acquisition loop alone on the    *)
(* clock, with a Source that delivers Readings or nothing, whose reads can *)
(* raise SerialException and whose reconnection can fail.                  *)
(***************************************************************************)
\* The daemon on the clock with the retry limits of the configuration under
\* test instead of the defaults
InitSource ==
    /\ Constructed
    /\ Configured(MaxSerialRetries, MaxInfluxRetries, TRUE)
    /\ ParserIdle

NextSource ==
    \/ CS_Attempt("main", {"ok", "serial_exc_open"})
    \/ CS_Sleep("main")
    \/ CS_Exhausted("main")
    \/ CI_Attempt({"ok"})
    \/ M_StartSerial
    \/ M_StartInflux
    \/ M_SerialReturned
    \/ M_InfluxReturned
    \/ M_LoopTop
    \/ M_CheckInflux
    \/ M_Read({"reading", "serial_error"})
    \/ Q_Full
    \/ Q_Evict
    \/ Q_Put
    \/ Tick({"main"})

SpecSource == InitSource /\ [][NextSource]_vars

(***************************************************************************)
(* The two timestamps: all three threads on the clock, with the signal and *)
(* cleanup.  The Source is reliable and delivers a Reading or nothing, the *)
(* Sink may refuse the connection.                                         *)
(***************************************************************************)
NextStamps ==
    \/ \E t \in Connectors : CS_Attempt(t, {"ok"})
    \/ CI_Attempt({"ok"})
    \/ M_StartSerial
    \/ M_StartInflux
    \/ M_SerialReturned
    \/ M_InfluxReturned
    \/ M_LoopTop
    \/ M_CheckInflux
    \/ M_Read({"no_data", "reading"})
    \/ Q_Full
    \/ Q_Put
    \/ W_Top
    \/ W_Size
    \/ W_Take
    \/ W_BatchDone
    \/ W_Requeue
    \/ W_CycleEnd
    \/ D_Check
    \/ D_SerialReturned
    \/ D_Heartbeat
    \/ signal_handler
    \/ C_Join
    \/ C_Size
    \/ C_Drain
    \/ C_Close
    \/ C_CloseInflux
    \/ Tick(Threads)

SpecStamps == InitSource /\ [][NextStamps]_vars

(***************************************************************************)
(* Outages of both endpoints: the acquisition loop and the drain worker,   *)
(* scheduled fairly.  The Source delivers Readings or fails and may refuse *)
(* to reconnect; the Sink may refuse the connection and the writes.  The   *)
(* running flag stays true.  Sleeps take no time here.                     *)
(***************************************************************************)
LoopStep ==
    \/ CS_Attempt("main", {"ok", "serial_exc_open"})
    \/ CS_Sleep("main")
    \/ CS_Exhausted("main")
    \/ CI_Attempt({"ok", "exc_ctor"})
    \/ CI_Sleep
    \/ CI_Exhausted
    \/ M_StartSerial
    \/ M_StartInflux
    \/ M_SerialReturned
    \/ M_InfluxReturned
    \/ M_LoopTop
    \/ M_CheckInflux
    \/ M_Read({"reading", "serial_error"})
    \/ Q_Full
    \/ Q_Evict
    \/ Q_Put

DrainStep ==
    \/ W_Top
    \/ W_Size
    \/ W_Take
    \/ W_BatchDone
    \/ W_Requeue
    \/ W_CycleEnd

NextOutage ==
    \/ LoopStep
    \/ DrainStep

SpecOutage ==
    /\ Init
    /\ [][NextOutage]_vars
    /\ WF_vars(LoopStep)
    /\ WF_vars(DrainStep)

(***************************************************************************)
(* Malformed input: the acquisition loop alone on the clock, with a Source *)
(* that delivers nothing but lines the parser refuses, blank lines and     *)
(* lines that are not UTF-8.                                               *)
(***************************************************************************)
\* "garbage", "T:abc H:50.1" and a line of one space
MalformedLines == {TokGarbage, Join(<<TokBadT, TokH>>), <<" ">>}

NextMalformed ==
    \/ CS_Attempt("main", {"ok"})
    \/ CI_Attempt({"ok"})
    \/ M_StartSerial
    \/ M_StartInflux
    \/ M_SerialReturned
    \/ M_InfluxReturned
    \/ M_LoopTop
    \/ M_CheckInflux
    \/ M_Read({"decode_error"})
    \/ M_ReadLine(MalformedLines)
    \/ Tick({"main"})

SpecMalformed == InitClock /\ [][NextMalformed]_vars

(***************************************************************************)
(* The error counter: the acquisition loop alone, every outcome of the     *)
(* read and both results of a reconnection.  Sleeps take no time here.     *)
(***************************************************************************)
NextErrors ==
    \/ CS_Attempt("main", {"ok", "serial_exc_open"})
    \/ CS_Sleep("main")
    \/ CS_Exhausted("main")
    \/ CI_Attempt({"ok"})
    \/ M_StartSerial
    \/ M_StartInflux
    \/ M_SerialReturned
    \/ M_InfluxReturned
    \/ M_LoopTop
    \/ M_CheckInflux
    \/ M_Read(ReadOutcomes)
    \/ Q_Full
    \/ Q_Evict
    \/ Q_Put

SpecErrors == Init /\ [][NextErrors]_vars

(***************************************************************************)
(* The parsers alone: a line of up to MaxTokens tokens, joined by single   *)
(* spaces, is handed to one of the parse_weather_data variants.            *)
(***************************************************************************)
InitParse ==
    /\ Constructed
    /\ Configured(MaxSerialRetries, MaxInfluxRetries, FALSE)
    /\ tokens \in UNION {[1..n -> TokenSet] : n \in 0..MaxTokens}
    /\ data_line = Join(tokens)
    /\ parsed = [by |-> "nobody", result |-> NoReading]

daemonVars == <<running, cfgVars, connVars, data_queue, captured, delivered, pc,
                episodeVars, caller, weather_data, batchVars, remaining, snapVars,
                consecutive_errors, line, timeVars, influx_closed>>

\* WeatherDaemon.parse_weather_data(data_line)
P_Daemon ==
    /\ parsed.by = "nobody"
    /\ parsed' = [by |-> "WeatherDaemon",
                  result |-> WeatherDaemon_parse_weather_data(data_line)]
    /\ UNCHANGED <<daemonVars, tokens, data_line>>

\* WeatherStationDaemon.parse_weather_data(data_line)
P_Station ==
    /\ parsed.by = "nobody"
    /\ parsed' = [by |-> "WeatherStationDaemon",
                  result |-> WeatherStationDaemon_parse_weather_data(data_line)]
    /\ UNCHANGED <<daemonVars, tokens, data_line>>

\* WeatherStationCollector.parse_weather_data(data_line)
P_Collector ==
    /\ parsed.by = "nobody"
    /\ parsed' = [by |-> "WeatherStationCollector",
                  result |-> WeatherStationCollector_parse_weather_data(data_line)]
    /\ UNCHANGED <<daemonVars, tokens, data_line>>

NextParse ==
    \/ P_Daemon
    \/ P_Station
    \/ P_Collector

SpecParse == InitParse /\ [][NextParse]_vars

(***************************************************************************)
(* Properties                                                              *)
(***************************************************************************)
\* The ascending sequence of the elements of a finite set of numbers
Ascending(S) ==
    [i \in 1..Cardinality(S) |->
        CHOOSE x \in S : Cardinality({y \in S : y < x}) = i - 1]

\* The last n elements of a sequence (all of it when it is shorter)
LastN(s, n) == IF Len(s) <= n THEN s ELSE SubSeq(s, Len(s) - n + 1, Len(s))

\* The Readings passed to queue_data so far when nothing was ever taken out
\* of the queue: those captured and not accepted by the immediate send
Queued == Ascending((1..captured) \ delivered)

\* A queue_data call has been entered and has not returned
InQueueData == weather_data # 0
SenderIdle == pc["sender"] \in {"w_top", "w_size", "done"}
RequeueStep ==
    /\ pc["sender"] = "w_requeue"
    /\ failed_items # <<>>
    /\ failed_items' = Tail(failed_items)

\* C1: in every reachable state, whatever the interleaving of queue_data, the
\* drain worker's dequeue and re-enqueue and the final drain, the data queue
\* holds at most its capacity of items.
C1_QueueWithinCapacity == Len(data_queue) <= QueueCap

\* queue_data is about to insert into a queue that the drain worker's
\* re-enqueue has filled up after queue_data's full() check
C1_Witness ==
    /\ Len(data_queue) = QueueCap
    /\ pc["main"] = "q_put"
    /\ consumed

\* C2: every queue_data call ends with its new item in the queue (the item
\* passed to queue_data is never the one that is lost).
C2_NewItemQueued ==
    [][(pc["main"] = "q_put" /\ pc'["main"] # "q_put")
         => weather_data \in Range(data_queue')]_vars

\* C3: with no consumer having touched the queue, after any number of
\* queue_data calls the queue holds the last QueueCap items passed to
\* queue_data, in insertion order: N+1 calls on an empty queue of capacity N
\* leave items 2..N+1, the oldest one evicted.
C3_DropOldestSequential ==
    (~consumed /\ ~InQueueData) => data_queue = LastN(Queued, QueueCap)

\* queue_data was called QueueCap + 1 times with no consumer and has returned
C3_Witness ==
    /\ ~consumed
    /\ ~InQueueData
    /\ delivered = {}
    /\ captured = QueueCap + 1
    /\ data_queue = [i \in 1..QueueCap |-> i + 1]

\* C4: for every Reading parsed by the acquisition loop, queue_data is
\* invoked with it if and only if the immediate send did not succeed: a
\* Reading the Sink accepted is not enqueued, one it did not accept (or that
\* was not sent for want of a client) is passed to queue_data.
C4_QueueIffSendFailed ==
    [][captured' = captured + 1 =>
         \/ /\ pc'["main"] = "q_full"
            /\ weather_data' = captured'
            /\ captured' \notin delivered'
         \/ /\ pc'["main"] # "q_full"
            /\ weather_data' = 0
            /\ captured' \in delivered']_vars

\* A Reading whose immediate send failed although a client exists is at the
\* entry of queue_data, after an earlier Reading was sent immediately
C4_Witness ==
    /\ pc["main"] = "q_full"
    /\ influx_client = "client"
    /\ weather_data = captured
    /\ captured - 1 \in delivered

\* C5: while every send fails and the drain worker keeps running, between
\* drain cycles and queue_data calls the queue holds exactly the most recent
\* min(k, N) of the k Readings captured.
C5_QueueHoldsMostRecent ==
    (running /\ delivered = {} /\ ~InQueueData /\ SenderIdle)
        => Range(data_queue) = Range(LastN(Ascending(1..captured), QueueCap))

\* C6: every item a drain cycle dequeued was sent once and is counted either
\* as sent or as failed; an item the Sink accepted is neither in the queue
\* nor among the items to re-enqueue; a failed item is appended to the queue
\* when the queue has free space at its re-enqueue.
C6_Classified ==
    /\ delivered \cap (Range(data_queue) \cup Range(failed_items)) = {}
    /\ pc["sender"] = "w_batch" => sent_count + Len(failed_items) = batch_i
C6_DrainCycle ==
    /\ []C6_Classified
    /\ [][(RequeueStep /\ Len(data_queue) < QueueCap)
            => data_queue' = Append(data_queue, Head(failed_items))]_vars

\* A cycle that sent one item and failed on another is about to re-enqueue
\* the failed one into a queue with free space
C6_Witness ==
    /\ pc["sender"] = "w_requeue"
    /\ failed_items # <<>>
    /\ sent_count > 0
    /\ Len(data_queue) < QueueCap

C8_DrainInBatches ==
    snapValid =>
        /\ snapQueue = snapSent \o data_queue
        /\ snapCycles <= CeilDiv(Len(snapQueue), BatchMax)
        /\ data_queue = <<>> => snapCycles = CeilDiv(Len(snapQueue), BatchMax)

\* A queue of more than one batch has been drained completely
C8_Witness ==
    /\ snapValid
    /\ data_queue = <<>>
    /\ Len(snapQueue) > BatchMax
    /\ snapSent = snapQueue
    /\ snapCycles = 2

\* C9: a connect_serial or connect_influxdb call whose attempts all fail
\* while the running flag is true makes exactly max attempts, waits the
\* delay after every attempt but the last, and returns failure.
C9_ExactlyMaxAttempts ==
    /\ \A t \in Connectors :
         /\ pc[t] \in {"cs_loop", "cs_sleep"} =>
              /\ attempts[t] <= MaxSerialRetries
              /\ sleeps[t] = IF pc[t] = "cs_sleep" \/ attempts[t] = MaxSerialRetries
                             THEN attempts[t] - 1 ELSE attempts[t]
         /\ (pc[t] = "cs_ret_false" /\ running) =>
              /\ attempts[t] = MaxSerialRetries
              /\ sleeps[t] = MaxSerialRetries - 1
    /\ pc["main"] \in {"ci_loop", "ci_sleep"} =>
         /\ attempts["main"] <= MaxInfluxRetries
         /\ sleeps["main"] = IF pc["main"] = "ci_sleep"
                                \/ attempts["main"] = MaxInfluxRetries
                             THEN attempts["main"] - 1 ELSE attempts["main"]
    /\ (pc["main"] = "ci_ret_false" /\ running) =>
         /\ attempts["main"] = MaxInfluxRetries
         /\ sleeps["main"] = MaxInfluxRetries - 1

\* Both kinds of call have returned failure after all their attempts: the
\* watchdog's connect_serial and, earlier, the main thread's connect_influxdb
C9_Witness ==
    /\ running
    /\ pc["watchdog"] = "cs_ret_false"
    /\ attempts["watchdog"] = MaxSerialRetries
    /\ sleeps["watchdog"] = MaxSerialRetries - 1
    /\ influx_retry_count = MaxInfluxRetries

\* C10: every reconnection episode counts its failed attempts from zero,
\* whatever the published counter holds from earlier episodes, and the step
\* on which a connect succeeds leaves the published counter at zero.
C10_CountsFromZero ==
    /\ \A t \in Connectors : pc[t] \in {"cs_loop", "cs_sleep"} => retry_count[t] = attempts[t]
    /\ pc["main"] \in {"ci_loop", "ci_sleep"} => retry_count["main"] = attempts["main"]
    /\ pc["main"] = "ci_ret_true" => influx_retry_count = 0
C10_CounterReset ==
    /\ []C10_CountsFromZero
    /\ [][\A t \in Connectors :
            (pc[t] # "cs_ret_true" /\ pc'[t] = "cs_ret_true") => serial_retry_count' = 0]_vars
    /\ [][(pc["main"] # "ci_ret_true" /\ pc'["main"] = "ci_ret_true")
            => influx_retry_count' = 0]_vars

\* A connect_serial call has succeeded at its second attempt, in an episode
\* that followed one which ran out of attempts
C10_Witness ==
    /\ pc["main"] = "cs_ret_true"
    /\ caller = "loop"
    /\ attempts["main"] = 2
    /\ serial_retry_count = 0

\* The positions of a thread inside connect_serial or connect_influxdb
EpisodePcs == {"cs_loop", "cs_sleep", "cs_ret_true", "cs_ret_false",
               "ci_loop", "ci_sleep", "ci_ret_true", "ci_ret_false"}
InEpisode(t) == pc[t] \in EpisodePcs
Exits == pc["main"] # "exited" /\ pc'["main"] = "exited"

\* C11: with the default parameters the process is never terminated while
\* the main thread is inside a reconnection episode, at start-up or in the
\* acquisition loop: an episode runs to its end and returns to its caller.
C11_NoExitDuringEpisode == [][Exits => ~InEpisode("main")]_vars

\* C12: os._exit is reached only when restart_on_hang is true: with
\* restart_on_hang false neither the watchdog's loop-staleness check nor the
\* acquisition loop's error threshold ends the process.
C12_ExitOnlyWhenConfigured == [][Exits => restart_on_hang]_vars

\* restart_on_hang is false and the error threshold has been reached in the
\* SerialException handler's pass: the counter is back at zero and the loop
\* goes on
C12_Witness ==
    /\ ~restart_on_hang
    /\ caller = "exc"
    /\ pc["main"] = "loop_top"
    /\ consecutive_errors = 0

\* C13: with restart_on_hang true and running true, once the acquisition
\* loop is hung for good the process is eventually ended by the watchdog,
\* whatever reconnection the watchdog does earlier in its cycles.
C13_HungLoopTerminated ==
    (pc["main"] = "hung" /\ restart_on_hang /\ running) ~> (pc["main"] = "exited")

\* The process was ended in a watchdog cycle that first spent time on a
\* data-staleness reconnection
C13_Witness ==
    /\ pc["main"] = "exited"
    /\ restart_on_hang
    /\ hb_age > WatchdogTimeout
    /\ wd_elapsed > 0

\* The key and the value of a token: the text in front of its first colon
\* and the text after it
TokenKey(tok) == SubSeq(tok, 1, Find(tok, ":") - 1)
TokenValue(tok) == SubSeq(tok, Find(tok, ":") + 1, Len(tok))
\* A KEY:VALUE token whose value converts to a float
Converts(tok) == Find(tok, ":") # 0 /\ IsFloatText(TokenValue(tok))
\* The fixed key table, as the specification gives it
TableName(key, windName) ==
    IF key = <<"T">> THEN Temperature
    ELSE IF key = <<"H">> THEN Humidity
    ELSE IF key = <<"P">> THEN Pressure
    ELSE IF key = <<"W", "S">> THEN windName
    ELSE ToLower(key)
\* The fields a tolerant parser owes for the tokens toks, and the value of
\* each: that of the last token that converts under that name
OwedFields(toks, windName) ==
    {TableName(TokenKey(toks[i]), windName) : i \in {j \in 1..Len(toks) : Converts(toks[j])}}
OwedValue(toks, windName, name) ==
    LET at == {i \in 1..Len(toks) : Converts(toks[i])
                                   /\ TableName(TokenKey(toks[i]), windName) = name}
        last == CHOOSE i \in at : \A j \in at : j <= i
    IN FloatOf(TokenValue(toks[last]))
Tolerant(result, toks, windName) ==
    /\ DOMAIN result = OwedFields(toks, windName)
    /\ \A name \in DOMAIN result : result[name] = OwedValue(toks, windName, name)

\* C18: the queue-backed daemon's parse_weather_data returns, for a line with
\* at least one valid KEY:VALUE token, exactly the fields that convert: a bad
\* token does not reject the line.
C18_RegexParserTolerant ==
    parsed.by = "WeatherDaemon" => Tolerant(parsed.result, tokens, Wind_speed)

\* C19: the token-based parse_weather_data returns, for a line of
\* space-separated tokens, exactly the fields whose token converts to a
\* float, named through the fixed table or lower-cased, and None when no
\* token converts.
C19_TokenParserTolerant ==
    parsed.by \in {"WeatherStationDaemon", "WeatherStationCollector"}
        => Tolerant(parsed.result, tokens, Windspeed)

\* "T:abc H:50.1" has been parsed by a token-based parser: humidity 50.1 only
C19_Witness ==
    /\ tokens = <<TokBadT, TokH>>
    /\ parsed.by = "WeatherStationCollector"
    /\ DOMAIN parsed.result = {Humidity}
    /\ parsed.result[Humidity] = 50100

\* C14: a watchdog cycle calls connect_serial exactly when, at its check,
\* the data is older than data_timeout and the Source connection is open;
\* the call is made from the check and nowhere else in the cycle, and after
\* it the cycle goes on to the heartbeat check, so that there is one call per
\* stale cycle, none per fresh cycle, in every cycle while that lasts.
C14_OneReconnectPerStaleCycle ==
    /\ [][(pc["watchdog"] = "wd_check" /\ pc'["watchdog"] # "wd_check" /\ running)
            => (pc'["watchdog"] = "cs_loop"
                  <=> (data_age > DataTimeout /\ serial_connection = "open"))]_vars
    /\ [][(pc'["watchdog"] = "cs_loop" /\ pc["watchdog"] \notin {"cs_loop", "cs_sleep"})
            => pc["watchdog"] = "wd_check"]_vars
    /\ [][(pc["watchdog"] \in {"cs_ret_true", "cs_ret_false"}
             /\ pc'["watchdog"] # pc["watchdog"])
            => pc'["watchdog"] \in {"wd_heartbeat", "exited"}]_vars
    /\ [][(pc["watchdog"] = "wd_heartbeat" /\ pc'["watchdog"] = "wd_check")
            => timer'["watchdog"] = HealthCheckInterval]_vars

\* Readings came, then none for more than data_timeout: the watchdog has
\* just called connect_serial on the open connection
C14_Witness ==
    /\ pc["watchdog"] = "cs_loop"
    /\ attempts["watchdog"] = 0
    /\ data_age > DataTimeout
    /\ serial_connection = "open"
    /\ captured > 0

\* A line without any KEY:VALUE token
NoToken(received) == Find(received, ":") = 0

\* C20: every parser variant returns None for a line without any KEY:VALUE
\* token and for the empty line, and a pass of the acquisition loop that
\* reads such a line sends nothing, queues nothing, counts no error and
\* leaves last_data_time alone.
C20_NoTokenLineIgnored ==
    /\ [](NoToken(line) =>
            /\ WeatherDaemon_parse_weather_data(line) = NoReading
            /\ WeatherStationDaemon_parse_weather_data(line) = NoReading
            /\ WeatherStationCollector_parse_weather_data(line) = NoReading)
    /\ [][(pc["main"] = "read" /\ pc'["main"] # "read" /\ NoToken(line'))
            => /\ UNCHANGED <<delivered, data_queue, captured, weather_data,
                              consecutive_errors, data_age>>
               /\ pc'["main"] = "loop_top"]_vars

\* "garbage" has been read and passed over, long after the last Reading
C20_Witness ==
    /\ line = TokGarbage
    /\ pc["main"] = "loop_top"
    /\ timer["main"] = ReadInterval
    /\ captured > 0
    /\ data_age > ReadInterval

Stopped(t) == pc[t] \in {"done", "exited"}

CleanupPcs == {"cl_join", "cl_size", "cl_drain", "cl_close", "cl_influx"}
MainMoves == pc'["main"] # pc["main"] /\ pc'["main"] # "exited"

C17_FinalDrainBounded ==
    /\ [][(pc["main"] = "cl_size" /\ MainMoves) =>
            /\ remaining' <= FinalDrainMax
            /\ remaining' <= Len(data_queue)
            /\ UNCHANGED <<data_queue, delivered>>]_vars
    /\ [][(pc["main"] = "cl_drain" /\ data_queue' # data_queue) =>
            /\ remaining > 0
            /\ remaining' = remaining - 1
            /\ data_queue' = Tail(data_queue)
            /\ delivered' \in {delivered, delivered \cup {Head(data_queue)}}]_vars
    /\ [][(pc["main"] = "cl_drain" /\ data_queue' = data_queue) =>
            /\ delivered' = delivered
            /\ pc'["main"] \in {"cl_close", "exited"}
                  \/ UNCHANGED <<pc["main"], remaining>>]_vars
    /\ [][(pc["main"] \in CleanupPcs \cup {"done"} /\ pc["main"] # "cl_drain")
            => UNCHANGED <<data_queue, delivered>>]_vars
    /\ [](pc["main"] \in {"cl_size", "cl_drain"} => influx_client = "client")

\* the final drain has used up its iterations and left an item in the queue,
\* after a send of its own that failed (no Reading was evicted: the loop has
\* captured no more Readings than the queue holds)
C17_Witness ==
    /\ pc["main"] = "cl_close"
    /\ consumed
    /\ data_queue # <<>>
    /\ remaining = 0
    /\ captured <= QueueCap
    /\ \E item \in 1..captured : item \notin delivered \cup Range(data_queue)

\* C21: malformed input is never fatal: while the Source delivers nothing but
\* undecodable, unparseable and blank lines, the process is not ended.
C21_MalformedNeverFatal == [][~Exits]_vars

\* C22: at the start of every iteration of the acquisition loop the error
\* counter is below max_consecutive_errors.
C22_BelowThresholdAtLoopTop ==
    pc["main"] = "loop_top" => consecutive_errors < MaxConsecutiveErrors

\* An iteration of the loop ends here without having raised an exception: the
\* pass over "Read from serial", or the queue_data it called, goes back to the
\* top of the loop and no handler has counted an error
CleanIterationEnds ==
    /\ pc["main"] \in {"read", "q_put"}
    /\ pc'["main"] = "loop_top"
    /\ consecutive_errors' # consecutive_errors + 1

\* C25: an iteration of the acquisition loop that ends without an exception
\* leaves the error counter at zero.
C25_CleanIterationResets ==
    [][CleanIterationEnds => consecutive_errors' = 0]_vars

\* C23: between queue_data's full() check and its put no other thread changes
\* the queue, and queue_data evicts only from a queue that holds exactly its
\* capacity of items.
C23_QueueDataAtomic ==
    /\ [][(pc["main"] \in {"q_evict", "q_put"} /\ data_queue' # data_queue)
            => pc'["main"] # pc["main"]]_vars
    /\ [][(pc["main"] = "q_evict" /\ pc'["main"] = "q_put")
            => Len(data_queue) = QueueCap]_vars

\* The places of a thread inside connect_serial
SerialPcs == {"cs_loop", "cs_sleep", "cs_ret_true", "cs_ret_false"}
\* The acquisition loop has found the connection open at "Check serial
\* connection" and has not yet come to the end of "Read from serial"
BetweenCheckAndRead ==
    \/ pc["main"] \in {"check_influx", "read"}
    \/ /\ pc["main"] \in {"ci_loop", "ci_sleep", "ci_ret_true", "ci_ret_false"}
       /\ caller = "loop"

\* C24: at most one thread is inside connect_serial at any time, and the
\* Source connection is not replaced or closed by another thread while the
\* acquisition loop is between its is_open check and its read.
C24_SourceExclusive ==
    /\ [](\A t, u \in Connectors : (pc[t] \in SerialPcs /\ pc[u] \in SerialPcs) => t = u)
    /\ [][(BetweenCheckAndRead /\ pc'["main"] = pc["main"])
            => (serial_connection' = serial_connection /\ attempts' = attempts)]_vars

\* A drain cycle ends: the worker goes back to "while self.running:"
CycleEnds == pc["sender"] = "w_requeue" /\ pc'["sender"] = "w_top"

\* C26: the drain worker sleeps queue_flush_interval between two batch
\* attempts: when a cycle ends with items left in the queue, the worker sleeps
\* before it goes on (with an empty queue the top of its loop sleeps).
C26_SleepsBetweenBatches ==
    [][(CycleEnds /\ data_queue' # <<>>)
            => timer'["sender"] = QueueFlushInterval]_vars

\* A step that is not the main thread's
OthersStep == pc'["main"] = pc["main"] /\ remaining' = remaining

\* C27: a drain cycle starts with at most min(10, queue size) iterations; the
\* worker removes an item only in an iteration of its batch, one per
\* iteration and from the head of the queue; and an iteration that finds the
\* queue empty ends the batch at once, with what was taken kept as it is.
C27_BatchBounded ==
    /\ [][(pc["sender"] = "w_size" /\ pc'["sender"] = "w_batch") =>
            /\ batch_n' <= BatchMax
            /\ batch_n' <= Len(data_queue)
            /\ batch_i' = 0
            /\ data_queue' = data_queue]_vars
    /\ [][(OthersStep /\ Len(data_queue') < Len(data_queue)) =>
            /\ pc["sender"] = "w_batch"
            /\ batch_i < batch_n
            /\ batch_i' = batch_i + 1
            /\ batch_n' = batch_n
            /\ data_queue' = Tail(data_queue)
            /\ Len(failed_items') + sent_count' = batch_i']_vars
    /\ [][(pc["sender"] = "w_batch" /\ pc'["sender"] # "w_batch"
             /\ pc'["sender"] # "exited") =>
            /\ pc'["sender"] = "w_requeue"
            /\ batch_i < batch_n => data_queue = <<>>
            /\ UNCHANGED <<data_queue, delivered, batchVars>>]_vars
    /\ [](batch_i <= batch_n /\ batch_n <= BatchMax)

\* a batch has ended early: the producer's eviction emptied the queue after
\* the worker had taken its first item
C27_Witness ==
    /\ pc["sender"] = "w_requeue"
    /\ 0 < batch_i
    /\ batch_i < batch_n

\* C28: an iteration that finds the Source connection absent or closed runs
\* one reconnection episode; when the episode fails the loop sleeps
\* serial_retry_delay and starts its next iteration, and nothing is read,
\* sent, queued or counted; and no Reading is captured except from an open
\* connection.
C28_ReadsOnlyWhenConnected ==
    /\ [][(pc["main"] = "loop_top" /\ MainMoves /\ running
             /\ serial_connection # "open") =>
            /\ pc'["main"] = "cs_loop"
            /\ caller' = "loop"
            /\ retry_count'["main"] = 0
            /\ attempts'["main"] = 0]_vars
    /\ [][(pc["main"] = "cs_ret_false" /\ caller = "loop" /\ MainMoves) =>
            /\ pc'["main"] = "loop_top"
            /\ timer'["main"] = SerialRetryDelay
            /\ UNCHANGED <<captured, delivered, data_queue, weather_data,
                           data_age, line, consecutive_errors>>]_vars
    /\ [][(pc["main"] = "read" /\ MainMoves /\ serial_connection # "open") =>
            /\ pc'["main"] = "loop_top"
            /\ UNCHANGED <<captured, delivered, data_queue, weather_data,
                           data_age, line, consecutive_errors>>]_vars
    /\ [][captured' # captured => serial_connection = "open"]_vars

\* the loop has given up a reconnection episode of its connection check and
\* waits for its next iteration, with Readings captured earlier
C28_Witness ==
    /\ pc["main"] = "loop_top"
    /\ caller = "loop"
    /\ timer["main"] = SerialRetryDelay
    /\ serial_connection # "open"
    /\ attempts["main"] = 0
    /\ captured > 0

\* The acquisition loop is at the place where it writes last_heartbeat, or
\* at the place where it writes last_data_time
AtHeartbeatWrite == pc["main"] = "loop_top" /\ pc'["main"] \in {"cs_loop", "check_influx"}
AtDataTimeWrite == pc["main"] = "read" /\ captured' = captured + 1

\* C29: last_heartbeat and last_data_time are written by the acquisition loop
\* only: the age of the heartbeat goes down only at the top of an iteration
\* and the age of the data only where a Reading has been parsed; no step of
\* the watchdog, of the drain worker, of a connection episode or of cleanup
\* changes either.
C29_SingleWriter ==
    /\ [][hb_age' < hb_age => (AtHeartbeatWrite /\ hb_age' = 0)]_vars
    /\ [][data_age' < data_age => (AtDataTimeWrite /\ data_age' = 0)]_vars
    /\ [][(pc'["watchdog"] # pc["watchdog"] \/ pc'["sender"] # pc["sender"]
             \/ batchVars' # batchVars \/ remaining' # remaining
             \/ attempts' # attempts \/ sleeps' # sleeps
             \/ (pc["main"] \in CleanupPcs /\ pc'["main"] # pc["main"]))
            => UNCHANGED <<hb_age, data_age>>]_vars

\* the watchdog has come back from a reconnection and the data is as stale
\* as before, while the drain worker has sent queued items
C29_Witness ==
    /\ pc["watchdog"] = "wd_heartbeat"
    /\ wd_elapsed = 0
    /\ data_age > DataTimeout
    /\ serial_connection = "open"
    /\ consumed
    /\ captured > 0

\* C30: last_data_time is written in a pass over "Read from serial" if and
\* only if the pass has parsed a line into a Reading, whether the Reading is
\* then sent or handed to queue_data; a pass that finds no line, a blank line
\* or a line the parser refuses leaves it as it was.
C30_DataTimeIffReading ==
    /\ [][AtDataTimeWrite =>
            /\ data_age' = 0
            /\ IsReading(WeatherDaemon_parse_weather_data(line'))
            /\ pc'["main"] \in {"q_full", "loop_top", "exited"}]_vars
    /\ [][(pc["main"] = "read" /\ pc'["main"] # "read" /\ captured' = captured) =>
            /\ data_age' = data_age
            /\ line' # line => ~IsReading(WeatherDaemon_parse_weather_data(line'))]_vars

\* a Reading whose send failed is on its way into the queue with
\* last_data_time fresh, after an earlier Reading was sent
C30_Witness ==
    /\ pc["main"] = "q_full"
    /\ weather_data = captured
    /\ data_age = 0
    /\ line = Join(<<TokT, TokH, TokP, TokWS>>)
    /\ delivered # {}

C32_FailedEpisodeLeavesNoClient ==
    /\ [][(pc["main"] = "ci_loop" /\ retry_count'["main"] = retry_count["main"] + 1)
            => influx_client' = "none"]_vars
    /\ [](pc["main"] = "ci_ret_false" => influx_client = "none")

\* The Sink refuses something: an attempt of connect_influxdb fails, or a
\* write of the loop or of the drain worker fails although a client exists
SinkRefuses ==
    \/ pc["main"] = "ci_loop" /\ retry_count'["main"] = retry_count["main"] + 1
    \/ /\ captured' = captured + 1
       /\ influx_client = "client"
       /\ captured' \notin delivered'
    \/ Len(failed_items') > Len(failed_items)

\* C33: draining does not depend on the Source: if from some point on the
\* Sink refuses nothing and nothing more is captured, then the queue ends up
\* empty, with the running flag true and both threads scheduled fairly,
\* unless the process is ended.
C33_DrainsWithoutSource ==
    <>[][~SinkRefuses /\ captured' = captured]_vars
        => (<>[](data_queue = <<>>) \/ <>(pc["main"] = "exited"))

\* C34: in every reachable state the queue is ordered by capture time, the
\* oldest Reading at the head (Readings are numbered in capture order).
C34_QueueInCaptureOrder ==
    \A i \in 1..Len(data_queue) : \A j \in 1..Len(data_queue) :
        i < j => data_queue[i] < data_queue[j]

\* A Reading is in no place twice
NoDuplicates(s) == \A i \in 1..Len(s) : \A j \in 1..Len(s) : s[i] = s[j] => i = j

\* A step of the drain worker or of the final drain that takes the head item
TakesHead ==
    /\ data_queue # <<>>
    /\ \/ pc["sender"] = "w_batch" /\ batch_i' = batch_i + 1
       \/ pc["main"] = "cl_drain" /\ remaining' = remaining - 1

\* C35: each Reading is written successfully at most once: an item taken for
\* sending was not accepted before, an accepted Reading is neither queued nor
\* kept for re-enqueueing, and no Reading is held twice by the queue and the
\* drain worker's batch, also while the final drain runs beside the worker.
C35_Held ==
    /\ delivered \cap (Range(data_queue) \cup Range(failed_items)) = {}
    /\ NoDuplicates(data_queue \o failed_items)
    /\ weather_data # 0 => weather_data \notin delivered
C35_WrittenAtMostOnce ==
    /\ []C35_Held
    /\ [][TakesHead => Head(data_queue) \notin delivered]_vars

\* The final drain and a batch of the drain worker, which has had an item
\* accepted, are both about to take from the same non-empty queue
C35_Witness ==
    /\ pc["main"] = "cl_drain"
    /\ remaining > 0
    /\ pc["sender"] = "w_batch"
    /\ batch_i < batch_n
    /\ sent_count > 0
    /\ data_queue # <<>>

\* C36: once cleanup has closed the Sink client the drain worker is not
\* inside a batch: it neither sends nor re-enqueues.
C36_NoSendAfterClose ==
    influx_closed => pc["sender"] \notin {"w_batch", "w_requeue"}

\* C37: a queued Reading keeps its fields and the timestamp of its first
\* enqueue (a number stands for that pair): the item the drain worker takes is
\* the one it writes or keeps for re-enqueueing, the item it re-enqueues is the
\* one it kept, and the final drain writes the item it took.
C37_ItemUnchanged ==
    [][/\ (data_queue # <<>> /\ pc["sender"] = "w_batch" /\ batch_i' = batch_i + 1) =>
            /\ failed_items' \in {failed_items, Append(failed_items, Head(data_queue))}
            /\ delivered' \in {delivered, delivered \cup {Head(data_queue)}}
       /\ (data_queue # <<>> /\ pc["main"] = "cl_drain" /\ remaining' = remaining - 1) =>
            delivered' \in {delivered, delivered \cup {Head(data_queue)}}
       /\ RequeueStep =>
            data_queue' \in {data_queue, Append(data_queue, Head(failed_items))}]_vars

\* Of two Readings the first failed and was re-enqueued behind the second;
\* a later batch has taken and written the second and finds the first next
C37_Witness ==
    /\ captured = 2
    /\ pc["sender"] = "w_batch"
    /\ batch_i = 1
    /\ sent_count = 1
    /\ delivered = {2}
    /\ data_queue = <<1>>
\* A line "T:v H:v P:v WS:v" whose four values convert with float()
WellFormedLine(toks) ==
    /\ Len(toks) = 4
    /\ \A i \in 1..4 : Converts(toks[i])
    /\ <<TokenKey(toks[1]), TokenKey(toks[2]), TokenKey(toks[3]), TokenKey(toks[4])>>
         = <<<<"T">>, <<"H">>, <<"P">>, <<"W", "S">>>>

\* C38: the queue-backed daemon's parser turns every well-formed four-field
\* line, signed values included, into a Reading with the four values.
C38_WellFormedParses ==
    (parsed.by = "WeatherDaemon" /\ WellFormedLine(tokens)) =>
        /\ parsed.result # NoReading
        /\ parsed.result[Temperature] = FloatOf(TokenValue(tokens[1]))
        /\ parsed.result[Humidity] = FloatOf(TokenValue(tokens[2]))
        /\ parsed.result[Pressure] = FloatOf(TokenValue(tokens[3]))
        /\ parsed.result[Wind_speed] = FloatOf(TokenValue(tokens[4]))
\* C39: every failed attempt of a Source reconnection episode, whichever
\* exception it raised, leaves the published serial_retry_count equal to the
\* number of failed attempts the episode has made.
C39_PublishedCountTracksFailures ==
    [][\A t \in {"main", "watchdog"} :
         (pc[t] = "cs_loop" /\ retry_count'[t] = retry_count[t] + 1)
            => serial_retry_count' = retry_count'[t]]_vars
====
